---- MODULE Spec2Model ----
(***************************************************************************)
(* Model of the Attio -> Apollo synchronisation bridge: the stage-name     *)
(* reconciliation (stage-mapping.server.ts), the person sync               *)
(* (sync-to-apollo.server.ts), the reverse sync (sync-from-apollo.server   *)
(* .ts), the company and deal syncs and the record-updated event handler.  *)
(*                                                                         *)
(* Text values are sequences of one-character strings, so that trim,       *)
(* lower-casing, substring search and the identifier-shape test are        *)
(* computed and not assumed.  Every HTTP request is two steps: the step    *)
(* that issues it and the continuation that consumes its response.         *)
(***************************************************************************)
EXTENDS Integers, Sequences, FiniteSets, TLC

VARIABLES
    remoteStages,       \* contact-stage list held by the target platform
    apolloStagesCache,  \* module-level cache of stage-mapping.server.ts
    apolloContacts,     \* contacts held by the target platform, in creation order
    apolloAccounts,     \* accounts held by the target platform
    apolloOpportunities, \* opportunities held by the target platform
    apolloOpportunityStagesCache, \* cache of opportunity-stage-mapping.server.ts
    pc,                 \* position of the running invocation
    fn,                 \* exported function that is running
    caller,             \* "event" (onRecordUpdated) or "direct"
    recordId,           \* argument of the running invocation
    trace,              \* HTTP requests issued by the running invocation, in order
    inflight,           \* number of HTTP requests issued and not yet answered
    loc,                \* local variables of the running invocation
    syncOutcome,        \* "none", "returned" or "threw"
    result,             \* {created, updated} returned by the invocation
    handlerOutcome,     \* outcome of onRecordUpdated: "none", "resolved", "rejected"
    firstMap,           \* first value mapStageToApollo returned for each stage name
    lastMap,            \* last call of mapStageToApollo: input, stage list, output
    lastAttioMap,       \* last call of mapStageToAttio: input, cache, output
    stageFetches,       \* stage-list requests: issued and answered successfully
    createsFor,         \* create requests issued per source record
    invocations,        \* number of invocations started
    group,              \* functions a behaviour calls: "person" or "org"
    thrown,             \* message of the error the running function threw, <<>> if none
    message,            \* last message the dialog set, <<>> if none
    failed,             \* a request of the running function was answered with a failure
    payload,            \* data of the last create or update call, NoPayload if none
    updatedBy,          \* <<record id, opportunity id>> of every opportunity update issued
    lagged              \* a search answered without a record that has the key searched for

vars == <<remoteStages, apolloStagesCache, apolloContacts, apolloAccounts,
          apolloOpportunities, apolloOpportunityStagesCache, pc, fn, caller,
          recordId, trace, inflight, loc, syncOutcome, result, handlerOutcome,
          firstMap, lastMap, lastAttioMap, stageFetches, createsFor, invocations,
          group, thrown, message, failed, payload, updatedBy, lagged>>

-----------------------------------------------------------------------------
(* Bounds *)

MaxInvocations == 2

-----------------------------------------------------------------------------
(* Text *)

\* null / undefined of the source language: a value that is no text.
NULL == <<"null">>

EMPTY == <<>>

\* !x for a value of type string | null | undefined.
Falsy(x) == x = NULL \/ x = EMPTY

\* x || "" .
OrEmpty(x) == IF Falsy(x) THEN EMPTY ELSE x

LowerChar(c) ==
    CASE c = "A" -> "a"
      [] c = "B" -> "b"
      [] c = "Z" -> "z"
      [] OTHER -> c

ToLowerCase(s) == IF s = EMPTY THEN EMPTY ELSE [i \in 1..Len(s) |-> LowerChar(s[i])]

RECURSIVE TrimStart(_)
TrimStart(s) == IF s # EMPTY /\ Head(s) = " " THEN TrimStart(Tail(s)) ELSE s

RECURSIVE TrimEnd(_)
TrimEnd(s) == IF s # EMPTY /\ s[Len(s)] = " " THEN TrimEnd(SubSeq(s, 1, Len(s) - 1)) ELSE s

Trim(s) == TrimEnd(TrimStart(s))

\* String.prototype.includes
Includes(h, n) == \E i \in 0..(Len(h) - Len(n)) : SubSeq(h, i + 1, i + Len(n)) = n

AlnumChars == {"a", "b", "z", "A", "B", "Z", "1", "2"}

\* x.length > 20 && /^[a-zA-Z0-9]+$/.test(x)
LooksLikeStageId(x) == Len(x) > 20 /\ \A i \in 1..Len(x) : x[i] \in AlnumChars

\* Array.prototype.find over the positions S that satisfy the predicate: the
\* first of them, 0 if there is none.
FindFirst(S) == IF S = {} THEN 0 ELSE CHOOSE i \in S : \A j \in S : i <= j

-----------------------------------------------------------------------------
(* Stage mapping: stage-mapping.server.ts *)

\* Manual table, attio stage name -> apollo stage name, as <<key, value>> pairs.
STAGE_NAME_MAPPING == {}

ManualLookup(key) ==
    IF \E p \in STAGE_NAME_MAPPING : p[1] = key
    THEN (CHOOSE p \in STAGE_NAME_MAPPING : p[1] = key)[2]
    ELSE NULL

normalizeStage(stage) == IF Falsy(stage) THEN NULL ELSE ToLowerCase(Trim(stage))

ExactMatch(stages, normalized) ==
    FindFirst({i \in 1..Len(stages) : normalizeStage(stages[i].name) = normalized})

PartialMatch(stages, normalized) ==
    FindFirst({i \in 1..Len(stages) :
        LET sNormalized == normalizeStage(stages[i].name)
        IN  \/ sNormalized # NULL /\ Includes(sNormalized, OrEmpty(normalized))
            \/ normalized # NULL /\ Includes(normalized, OrEmpty(sNormalized))})

\* Variant: the substring match is tried before the exact match.
findApolloStageIdByName_partialFirst(stageName, stages) ==
    LET normalized == normalizeStage(stageName)
        exactMatch == ExactMatch(stages, normalized)
        partialMatch == PartialMatch(stages, normalized)
    IN  IF partialMatch # 0 THEN stages[partialMatch].id
        ELSE IF exactMatch # 0 THEN stages[exactMatch].id
        ELSE NULL

\* findApolloStageIdByName, given the list getApolloStages returned.
findApolloStageIdByName(stageName, stages) ==
    LET normalized == normalizeStage(stageName)
        exactMatch == ExactMatch(stages, normalized)
        partialMatch == PartialMatch(stages, normalized)
    IN  IF exactMatch # 0 THEN stages[exactMatch].id
        ELSE IF partialMatch # 0 THEN stages[partialMatch].id
        ELSE NULL

\* Variant: the pass-through returns the normalized text.
mapStageToApollo_passNormalized(attioStage, stages) ==
    IF Falsy(attioStage) THEN attioStage
    ELSE LET stageId == findApolloStageIdByName(attioStage, stages)
         IN  IF ~Falsy(stageId) THEN stageId
             ELSE normalizeStage(attioStage)

\* mapStageToApollo, given the list getApolloStages returned.
mapStageToApollo(attioStage, stages) ==
    IF Falsy(attioStage) THEN attioStage
    ELSE LET direct == ManualLookup(attioStage)
             mappedName == IF ~Falsy(direct) THEN direct
                           ELSE ManualLookup(OrEmpty(normalizeStage(attioStage)))
             viaManual == IF Falsy(mappedName) THEN NULL
                          ELSE findApolloStageIdByName(mappedName, stages)
             stageId == findApolloStageIdByName(attioStage, stages)
         IN  IF ~Falsy(viaManual) THEN viaManual
             ELSE IF ~Falsy(stageId) THEN stageId
             ELSE IF LooksLikeStageId(attioStage) THEN attioStage
             ELSE attioStage

ReverseLookup(apolloName) ==
    IF \E p \in STAGE_NAME_MAPPING : normalizeStage(p[2]) = normalizeStage(apolloName)
    THEN (CHOOSE p \in STAGE_NAME_MAPPING : normalizeStage(p[2]) = normalizeStage(apolloName))[1]
    ELSE NULL

\* mapStageToAttio, given the list getApolloStages returns when it is asked.
mapStageToAttio(apolloStage, stages) ==
    IF Falsy(apolloStage) THEN apolloStage
    ELSE LET idx == IF LooksLikeStageId(apolloStage)
                    THEN FindFirst({i \in 1..Len(stages) : stages[i].id = apolloStage})
                    ELSE 0
         IN  IF idx # 0
             THEN IF ReverseLookup(stages[idx].name) # NULL
                  THEN ReverseLookup(stages[idx].name)
                  ELSE stages[idx].name
             ELSE IF ReverseLookup(apolloStage) # NULL
                  THEN ReverseLookup(apolloStage)
                  ELSE apolloStage

\* if (apolloStagesCache) return apolloStagesCache.  The cache is <<>> while
\* it is null and <<list>> once it holds a list; an empty list is truthy.
\* Variant: an empty cached list counts as no cache.
CacheHit_nonEmpty(cache) == Len(cache) = 1 /\ Len(cache[1]) > 0

CacheHit(cache) == Len(cache) = 1


-----------------------------------------------------------------------------
(* Data the invocations run on *)

RECURSIVE Repeat(_, _)
Repeat(c, n) == IF n = 0 THEN <<>> ELSE Append(Repeat(c, n - 1), c)

\* Stage identifiers of the target: a short one and two of the 24-character
\* shape the target issues.
ShortId == <<"1">>
LongId1 == Repeat("1", 24)
LongId2 == Repeat("2", 24)

Stage(i, n) == [id |-> i, name |-> n]

\* Remote contact-stage lists.  Identifiers and names are non-empty.
StageListPool ==
    { <<>>,
      << Stage(LongId1, <<"A", "b">>) >>,
      << Stage(ShortId, <<"A", "b">>) >>,
      << Stage(LongId1, <<"a", "b", "a">>), Stage(LongId2, <<" ", "A", "B", " ">>) >>,
      << Stage(LongId1, <<"A", "b">>), Stage(LongId2, <<"a", "b">>) >> }

\* Person records of the source: values.email_addresses (the email_address
\* of each entry) and the title of the status option, NULL when absent.
Person(e, st) == [email_addresses |-> e, status |-> st]

AttioPeople ==
    [r \in {"p1", "p2", "p3", "p4", "p5"} |->
        CASE r = "p1" -> Person(<< <<"a">> >>, <<"a", "b">>)
          [] r = "p2" -> Person(<<>>, <<"a", "b">>)
          [] r = "p3" -> Person(<< EMPTY, <<"a">> >>, <<"a", "b">>)
          [] r = "p4" -> Person(<< <<"A">> >>, <<"Z", " ">>)
          [] r = "p5" -> Person(<< <<"b">> >>, NULL)]

PersonIds == DOMAIN AttioPeople

\* values.name[0] of the person records: first_name and last_name, NULL where
\* the record has none.
AttioNames ==
    [r \in PersonIds |->
        CASE r = "p1" -> [first_name |-> NULL, last_name |-> <<"n">>]
          [] r = "p3" -> [first_name |-> <<"m", " ">>, last_name |-> NULL]
          [] r = "p4" -> [first_name |-> EMPTY, last_name |-> <<"n">>]
          [] OTHER -> [first_name |-> NULL, last_name |-> NULL]]

Contact(i, e, sid, ls) ==
    [id |-> i, email |-> e, contact_stage_id |-> sid, lifecycle_stage |-> ls,
     first_name |-> NULL, last_name |-> NULL]

WithNames(c, f, l) == [c EXCEPT !.first_name = f, !.last_name = l]

\* Contacts the target holds before the first invocation.
ContactPool ==
    { <<>>,
      << WithNames(Contact(<<"c0">>, <<"b">>, ShortId, NULL), <<"F">>, <<"L">>) >>,
      << WithNames(Contact(<<"c0">>, <<"A">>, LongId1, NULL), <<"F">>, NULL) >> }

\* Company records of the source: the name of the first values.name entry
\* and the first values.domains entry, NULL when absent.
Company(n, d) == [name |-> n, domain |-> d]

AttioCompanies ==
    [r \in {"k1", "k2", "k3"} |->
        CASE r = "k1" -> Company(<<"a", "b">>, <<"d">>)
          [] r = "k2" -> Company(NULL, <<"d">>)
          [] r = "k3" -> Company(<<"A", "b", " ">>, NULL)]

CompanyIds == DOMAIN AttioCompanies

Account(i, n, d) == [id |-> i, name |-> n, domain |-> d]

\* Accounts the target holds before the first invocation.
AccountPool ==
    { <<>>,
      << Account(<<"a0">>, <<"A", "b">>, NULL), Account(<<"a1">>, <<"z">>, <<"D">>) >> }

\* The marker syncDealToApollo writes into a description; a description is
\* the sequence of its parts.
Marker(r) == <<"[Attio Record ID: ", r, "]">>

\* Deal records of the source: name, stage title, description (<<>> when
\* absent) and the record id of the associated company, NULL when absent.
Deal(n, st, desc, k) == [name |-> n, stage |-> st, description |-> desc, company |-> k]

AttioDeals ==
    [r \in {"d1", "d2", "d3", "d4"} |->
        CASE r = "d1" -> Deal(<<"a", "b">>, <<"a", "b", " ">>, <<>>, <<"k1">>)
          [] r = "d2" -> Deal(<<"A", "b">>, NULL, << <<"x">> >>, NULL)
          [] r = "d3" -> Deal(NULL, <<"a", "b">>, <<>>, <<"k3">>)
          [] r = "d4" -> Deal(<<"c">>, <<"Z">>, << <<"x">>, Marker("d4") >>, NULL)]

DealIds == DOMAIN AttioDeals

Opportunity(i, n, desc, a) == [id |-> i, name |-> n, description |-> desc, account_id |-> a]

\* Opportunities the target holds before the first invocation.
OpportunityPool ==
    { <<>>,
      << Opportunity(<<"o0">>, <<"z">>, << Marker("d2") >>, NULL),
         Opportunity(<<"o1">>, <<"a", "b">>, <<>>, NULL) >> }

\* Opportunity stages of the target.
RemoteOpportunityStages == << Stage(LongId2, <<"a", "b">>) >>

RecordIds == PersonIds \cup CompanyIds \cup DealIds

-----------------------------------------------------------------------------
(* Requests *)

Req(side, op) == [side |-> side, op |-> op]

SourceRead == Req("source", "read")
SourceUpdate == Req("source", "update")
StageList == Req("target", "stages")
TargetSearch == Req("target", "search")
TargetGet == Req("target", "get")
TargetUpdate == Req("target", "update")
TargetCreate == Req("target", "create")
TargetVerify == Req("target", "verify")

\* fetch(...) starts a request.
AfterIssue(n) == n + 1

\* Variant: the request is not awaited before the next one is issued.
AfterAwait_notAwaited(n) == n

\* await: the continuation runs once the awaited request has been answered.
AfterAwait(n) == n - 1

Count(seq, r) == Cardinality({i \in 1..Len(seq) : seq[i] = r})

-----------------------------------------------------------------------------
(* Callers *)

\* Variant: the catch block rethrows.
onRecordUpdatedOutcome_rethrow(outcome) ==
    IF outcome = "threw" THEN "rejected" ELSE "resolved"

\* onRecordUpdated: the catch block logs and does not rethrow.
onRecordUpdatedOutcome(outcome) == "resolved"

\* The message of an error: the function that threw and where it threw.
ErrorMessage(f, at) == <<f, at>>

\* Variant: the catch block of the dialog shows a fixed text.
UiErrorMessage_fixedText(msg) == <<"Error: ", "Unknown error">>

\* setMessage(`Error: ${errorMessage}`) in the catch blocks of the dialog.
UiErrorMessage(msg) == <<"Error: ">> \o msg

\* The message the dialog sets when the awaited function has returned res:
\* the counts for handleSyncToApollo, found or not found for
\* handleViewInApollo.
UiDoneMessage(c, res) ==
    IF c = "uiSync" THEN <<"synced", res>>
    ELSE IF res = <<NULL>> THEN <<"not found">> ELSE <<"opening", res>>

\* The handlers of the dialog: try / catch / finally, the catch sets the
\* message and does not rethrow.
UiCallers == {"uiSync", "uiView"}

CallerOutcome(c, outcome) ==
    IF c = "event" THEN onRecordUpdatedOutcome(outcome)
    ELSE IF c \in UiCallers THEN "resolved"
    ELSE "none"


-----------------------------------------------------------------------------
(* State *)

NoLoc ==
    [fetched |-> FALSE, email |-> NULL, attioStage |-> NULL, apolloStage |-> NULL,
     searched |-> FALSE, found |-> <<>>, raw |-> NULL, createsBefore |-> 0,
     name |-> NULL, domain |-> NULL, accountId |-> NULL, endpoint |-> 0,
     companyName |-> NULL, results |-> <<>>, results2 |-> <<>>,
     probes |-> <<>>, detected |-> "none"]

\* The data handed to a create or update call of the target: the fields this
\* model follows, NULL where the caller does not set one.
Payload(kind, id, name, description, stage_id, stage_name, first_name, last_name) ==
    [kind |-> kind, id |-> id, name |-> name, description |-> description,
     stage_id |-> stage_id, stage_name |-> stage_name,
     first_name |-> first_name, last_name |-> last_name]

NoPayload == Payload("none", NULL, NULL, NULL, NULL, NULL, NULL, NULL)

Init ==
    /\ group \in {"person", "org"}
    /\ remoteStages \in (IF group = "person" THEN StageListPool ELSE {<<>>})
    /\ apolloStagesCache = <<>>
    /\ apolloContacts \in (IF group = "person" THEN ContactPool ELSE {<<>>})
    /\ pc = "idle"
    /\ fn = "none"
    /\ caller = "none"
    /\ recordId = "none"
    /\ trace = <<>>
    /\ inflight = 0
    /\ loc = NoLoc
    /\ syncOutcome = "none"
    /\ result = <<>>
    /\ handlerOutcome = "none"
    /\ firstMap = {}
    /\ lastMap = <<>>
    /\ lastAttioMap = <<>>
    /\ stageFetches = 0
    /\ createsFor = [r \in RecordIds |-> 0]
    /\ apolloAccounts \in (IF group = "org" THEN AccountPool ELSE {<<>>})
    /\ apolloOpportunities \in (IF group = "org" THEN OpportunityPool ELSE {<<>>})
    /\ apolloOpportunityStagesCache = <<>>
    /\ invocations = 0
    /\ thrown = <<>>
    /\ message = <<>>
    /\ failed = FALSE
    /\ payload = NoPayload
    /\ lagged = FALSE
    /\ updatedBy = {}

idv == <<remoteStages, fn, caller, recordId, invocations, group>>

\* State of the person functions and state of the company and deal functions.
personData == <<apolloStagesCache, apolloContacts, firstMap, lastMap,
                lastAttioMap, stageFetches>>

orgData == <<apolloAccounts, apolloOpportunities, apolloOpportunityStagesCache>>

\* A call of an exported function: its first statement issues the source read.
\* The person functions and the company and deal functions share no state
\* (different caches, different collections of the target): a behaviour calls
\* the functions of one of the two groups.
Begin(f, c, r) ==
    /\ pc \in {"idle", "done"}
    /\ group = (IF f \in {"syncToApollo", "syncFromApollo"} THEN "person" ELSE "org")
    /\ invocations < MaxInvocations
    /\ invocations' = invocations + 1
    /\ fn' = f
    /\ caller' = c
    /\ recordId' = r
    /\ pc' = "read"
    /\ trace' = <<SourceRead>>
    /\ inflight' = AfterIssue(inflight)
    /\ loc' = [NoLoc EXCEPT !.createsBefore = createsFor[r]]
    /\ syncOutcome' = "none"
    /\ result' = <<>>
    /\ handlerOutcome' = "none"
    /\ thrown' = <<>>
    /\ message' = <<>>
    /\ failed' = FALSE
    /\ payload' = NoPayload
    /\ UNCHANGED lagged
    /\ UNCHANGED updatedBy
    /\ lastMap' = <<>>
    /\ lastAttioMap' = <<>>
    /\ UNCHANGED <<remoteStages, apolloStagesCache, apolloContacts, firstMap,
                   stageFetches, createsFor, group>>
    /\ UNCHANGED orgData

\* s.replace(/^www\./, '')
StripWww(s) ==
    IF Len(s) >= 4 /\ SubSeq(s, 1, 4) = <<"w", "w", "w", ".">>
    THEN SubSeq(s, 5, Len(s)) ELSE s

\* The step continues a search of the target for the record an invocation
\* of a sync function is to update.
KeySearch ==
    \/ fn = "syncToApollo" /\ pc = "search"
    \/ fn = "syncCompanyToApollo" /\ pc \in {"search1", "search2"}
    \/ fn = "syncDealToApollo" /\ pc \in {"opp_search1", "opp_search2"}

\* held is in the answer.
Answered(answer, held) == \E j \in 1..Len(answer) : answer[j] = held

\* The answer of the search the step continues (recorded in loc') leaves out
\* a record the target holds under the key searched for: the email of the
\* person (one contact per page), the name or the domain of the company, the
\* marker or the name of the deal.
SearchLags ==
    CASE fn = "syncToApollo" ->
           /\ \E i \in 1..Len(apolloContacts) : apolloContacts[i].email = loc.email
           /\ \/ loc'.found = <<>>
              \/ loc'.found[1].email # loc.email
      [] fn = "syncCompanyToApollo" /\ pc = "search1" ->
           \E i \in 1..Len(apolloAccounts) :
              /\ ~Falsy(apolloAccounts[i].name)
              /\ Trim(ToLowerCase(apolloAccounts[i].name)) = Trim(ToLowerCase(loc.name))
              /\ ~Answered(loc'.results, apolloAccounts[i])
      [] fn = "syncCompanyToApollo" /\ pc = "search2" ->
           \E i \in 1..Len(apolloAccounts) :
              /\ ~Falsy(apolloAccounts[i].domain)
              /\ Trim(ToLowerCase(StripWww(apolloAccounts[i].domain)))
                   = Trim(ToLowerCase(loc.domain))
              /\ ~Answered(loc'.results2, apolloAccounts[i])
      [] OTHER ->
           \E i \in 1..Len(apolloOpportunities) :
              /\ \/ \E j \in 1..Len(apolloOpportunities[i].description) :
                       apolloOpportunities[i].description[j] = Marker(recordId)
                 \/ /\ ~Falsy(apolloOpportunities[i].name)
                    /\ Trim(ToLowerCase(apolloOpportunities[i].name))
                         = Trim(ToLowerCase(loc.name))
              /\ ~Answered(loc'.results, apolloOpportunities[i])

\* The running function throws out of the continuation of an answered
\* request; failure tells whether the request was answered with a failure.
ThrowsAfter(failure) ==
    /\ pc' = "done"
    /\ trace' = trace
    /\ inflight' = AfterAwait(inflight)
    /\ syncOutcome' = "threw"
    /\ result' = <<>>
    /\ handlerOutcome' = CallerOutcome(caller, "threw")
    /\ thrown' = ErrorMessage(fn, pc)
    /\ message' = IF caller \in UiCallers
                  THEN UiErrorMessage(ErrorMessage(fn, pc)) ELSE message
    /\ failed' = (failed \/ failure)
    /\ lagged' = (lagged \/ (~failure /\ KeySearch /\ SearchLags))
    /\ UNCHANGED <<payload, updatedBy>>

\* A check of the function throws (missing data, missing field).
Throws == ThrowsAfter(FALSE)

\* The request failed and the error leaves the function.
Fails == ThrowsAfter(TRUE)

Returns(res) ==
    /\ pc' = "done"
    /\ trace' = trace
    /\ inflight' = AfterAwait(inflight)
    /\ syncOutcome' = "returned"
    /\ result' = res
    /\ handlerOutcome' = CallerOutcome(caller, "returned")
    /\ thrown' = <<>>
    /\ message' = IF caller \in UiCallers THEN UiDoneMessage(caller, res) ELSE message
    /\ failed' = failed
    /\ UNCHANGED <<payload, updatedBy, lagged>>

\* The continuation of an answered request runs up to the next request, which
\* carries data; failure tells whether the request was answered with a
\* failure that a catch block took.
SendsAfter(failure, req, next, data) ==
    /\ pc' = next
    /\ trace' = Append(trace, req)
    /\ inflight' = AfterIssue(AfterAwait(inflight))
    /\ failed' = (failed \/ failure)
    /\ payload' = data
    /\ lagged' = (lagged \/ (KeySearch /\ SearchLags))
    /\ updatedBy' = IF data.kind = "updateApolloOpportunity"
                    THEN updatedBy \cup {<<recordId, data.id>>} ELSE updatedBy
    /\ UNCHANGED <<syncOutcome, result, handlerOutcome, thrown, message>>

IssuesAfter(failure, req, next) == SendsAfter(failure, req, next, NoPayload)

Issues(req, next) == IssuesAfter(FALSE, req, next)

\* Record of a finished call of mapStageToApollo.
Mapped(s, stages) == [input |-> s, stages |-> stages, output |-> mapStageToApollo(s, stages)]

NoteFirst(fm, s, out) == IF \E p \in fm : p[1] = s THEN fm ELSE fm \cup {<<s, out>>}


-----------------------------------------------------------------------------
(* syncToApollo: sync-to-apollo.server.ts *)

\* values.email_addresses[0]?.email_address
FirstEmail(rec) ==
    IF Len(rec.email_addresses) = 0 THEN NULL ELSE rec.email_addresses[1]

\* Variant: only a missing first email is rejected, an empty one is not.
NoEmail_nullOnly(email) == email = NULL

\* if (!email) throw
NoEmail(email) == Falsy(email)

\* What the keyword search of the target can answer with per_page 1: nothing
\* (also while its index lags), or any one contact it holds (the match is by
\* keyword, not by field); the schema lets a contact come without an id.
SearchAnswers(contacts) ==
    {<<>>}
    \cup {<<contacts[i]>> : i \in 1..Len(contacts)}
    \cup {<<[contacts[i] EXCEPT !.id = NULL]>> : i \in 1..Len(contacts)}

\* Variant: an empty search answer is an error instead of a create.
PersonBranch_noCreate(results) ==
    IF Len(results) > 0
    THEN IF Falsy(results[1].id) THEN "throw" ELSE "update"
    ELSE "throw"

\* if (apolloContacts.length > 0) { ... if (!contactId) throw ... } else { create }
PersonBranch(results) ==
    IF Len(results) > 0
    THEN IF Falsy(results[1].id) THEN "throw" ELSE "update"
    ELSE "create"

\* contact_stage_id for an identifier-shaped stage, lifecycle_stage otherwise.
WithStage(c, stage) ==
    IF stage = NULL THEN c
    ELSE IF LooksLikeStageId(stage) THEN [c EXCEPT !.contact_stage_id = stage]
    ELSE [c EXCEPT !.lifecycle_stage = stage]

RECURSIVE Patched(_, _, _, _)
Patched(contacts, id, email, stage) ==
    IF contacts = <<>> THEN <<>>
    ELSE <<IF Head(contacts).id = id
           THEN WithStage([Head(contacts) EXCEPT !.email = email], stage)
           ELSE Head(contacts)>> \o Patched(Tail(contacts), id, email, stage)

\* A field of a body that is not set (undefined).
NotSet == <<"undefined">>

\* firstName = nameEntry?.first_name || null (and lastName likewise)
ExtractedName(name) == IF Falsy(name) THEN NULL ELSE name

\* The first_name (last_name) of the PATCH body updateApolloContact builds
\* from the update data and the contact it read, NotSet when the read failed.
RequestName(given, current) ==
    IF given # NotSet
    THEN IF given = NULL THEN EMPTY ELSE Trim(given)
    ELSE IF current # NotSet
    THEN IF Falsy(current) THEN EMPTY ELSE current
    ELSE NotSet

\* The contact updateApolloContact read, <<>> when the read failed.
CurrentContact(contacts, id, ok) ==
    LET i == FindFirst({k \in 1..Len(contacts) : contacts[k].id = id})
    IN  IF ok /\ i # 0 THEN <<contacts[i]>> ELSE <<>>

\* The body of the PATCH of updateApolloContact: its name fields.
ContactUpdateBody(r, id, current) ==
    LET names == AttioNames[r]
    IN  Payload("updateApolloContact", id, NULL, NULL, NULL, NULL,
                RequestName(ExtractedName(names.first_name),
                            IF current = <<>> THEN NotSet ELSE current[1].first_name),
                RequestName(ExtractedName(names.last_name),
                            IF current = <<>> THEN NotSet ELSE current[1].last_name))

\* The target applies the name fields a body sets.
Renamed2(c, body) ==
    [c EXCEPT !.first_name = IF body.first_name = NotSet THEN @ ELSE body.first_name,
              !.last_name = IF body.last_name = NotSet THEN @ ELSE body.last_name]

\* createApolloContact sets a name only when it is not null.
CreatedName(name) == IF name = NULL THEN NULL ELSE Trim(name)

\* onRecordUpdated: record.updated.event.ts
OnRecordUpdated(object, r) ==
    IF object = "people"
    THEN Begin("syncToApollo", "event", r)
    ELSE /\ pc \in {"idle", "done"}
         /\ group = "person"
         /\ invocations < MaxInvocations
         /\ invocations' = invocations + 1
         /\ fn' = "none"
         /\ caller' = "event"
         /\ recordId' = r
         /\ pc' = "done"
         /\ trace' = <<>>
         /\ loc' = NoLoc
         /\ syncOutcome' = "none"
         /\ result' = <<>>
         /\ handlerOutcome' = "resolved"
         /\ thrown' = <<>>
         /\ message' = <<>>
         /\ failed' = FALSE
         /\ payload' = NoPayload
         /\ UNCHANGED lagged
         /\ UNCHANGED updatedBy
         /\ lastMap' = <<>>
         /\ lastAttioMap' = <<>>
         /\ UNCHANGED <<remoteStages, apolloStagesCache, apolloContacts, inflight,
                        firstMap, stageFetches, createsFor, group>>
         /\ UNCHANGED orgData

\* const attioRecord = await getPerson(recordId) ... up to the next request.
SyncToApolloRead ==
    /\ pc = "read"
    /\ fn = "syncToApollo"
    /\ UNCHANGED idv
    /\ UNCHANGED orgData
    /\ UNCHANGED <<apolloStagesCache, apolloContacts, lastAttioMap, stageFetches, createsFor>>
    /\ \E answer \in {"fail", "nodata", "ok"} :
        LET rec == AttioPeople[recordId]
            email == FirstEmail(rec)
            attioStage == rec.status
            loc1 == [loc EXCEPT !.fetched = TRUE, !.email = email, !.attioStage = attioStage]
        IN  IF answer # "ok"
            THEN (IF answer = "fail" THEN Fails ELSE Throws) /\ UNCHANGED <<loc, firstMap, lastMap>>
            ELSE IF NoEmail(email)
            THEN Throws /\ loc' = loc1 /\ UNCHANGED <<firstMap, lastMap>>
            ELSE IF Falsy(attioStage)
            THEN Issues(TargetSearch, "search") /\ loc' = loc1 /\ UNCHANGED <<firstMap, lastMap>>
            ELSE IF CacheHit(apolloStagesCache)
            THEN LET m == Mapped(attioStage, apolloStagesCache[1])
                 IN  /\ Issues(TargetSearch, "search")
                     /\ loc' = [loc1 EXCEPT !.apolloStage = m.output]
                     /\ firstMap' = NoteFirst(firstMap, attioStage, m.output)
                     /\ lastMap' = <<m>>
            ELSE Issues(StageList, "stages1") /\ loc' = loc1 /\ UNCHANGED <<firstMap, lastMap>>

\* The answer of listApolloContactStages inside getApolloStages, for the call
\* of mapStageToApollo (stages1) and for the one validateStageMapping makes
\* (stages2).
SyncToApolloStages ==
    /\ pc \in {"stages1", "stages2"}
    /\ fn = "syncToApollo"
    /\ UNCHANGED idv
    /\ UNCHANGED orgData
    /\ UNCHANGED <<apolloContacts, lastAttioMap, createsFor>>
    /\ \E ok \in BOOLEAN :
        LET cache2 == IF ok THEN <<remoteStages>> ELSE apolloStagesCache
            stages == IF ok THEN remoteStages ELSE <<>>
            m == Mapped(loc.attioStage, stages)
        IN  /\ apolloStagesCache' = cache2
            /\ stageFetches' = stageFetches + (IF ok THEN 1 ELSE 0)
            /\ firstMap' = NoteFirst(firstMap, loc.attioStage, m.output)
            /\ lastMap' = <<m>>
            /\ IF pc = "stages1"
               THEN /\ loc' = [loc EXCEPT !.apolloStage = m.output]
                    /\ IF CacheHit(cache2)
                       THEN IssuesAfter(~ok, TargetSearch, "search")
                       ELSE IssuesAfter(~ok, StageList, "stages2")
               ELSE /\ loc' = loc
                    /\ IssuesAfter(~ok, TargetSearch, "search")

\* const apolloContacts = await searchApolloContacts(...) and the branch on it.
SyncToApolloSearch ==
    /\ pc = "search"
    /\ fn = "syncToApollo"
    /\ UNCHANGED idv
    /\ UNCHANGED orgData
    /\ UNCHANGED <<apolloStagesCache, apolloContacts, firstMap, lastMap,
                   lastAttioMap, stageFetches>>
    /\ \/ Fails /\ UNCHANGED <<loc, createsFor>>
       \/ \E results \in SearchAnswers(apolloContacts) :
            /\ loc' = [loc EXCEPT !.searched = TRUE, !.found = results]
            /\ CASE PersonBranch(results) = "throw" ->
                      Throws /\ UNCHANGED createsFor
                 [] PersonBranch(results) = "update" ->
                      Issues(TargetGet, "get") /\ UNCHANGED createsFor
                 [] PersonBranch(results) = "create" ->
                      /\ Issues(TargetCreate, "create")
                      /\ createsFor' = [createsFor EXCEPT ![recordId] = @ + 1]

\* updateApolloContact: the read of the current contact; its failure is caught.
SyncToApolloGet ==
    /\ pc = "get"
    /\ fn = "syncToApollo"
    /\ \E ok \in BOOLEAN :
         SendsAfter(~ok, TargetUpdate, "patch",
                    ContactUpdateBody(recordId, loc.found[1].id,
                                      CurrentContact(apolloContacts, loc.found[1].id, ok)))
    /\ UNCHANGED idv
    /\ UNCHANGED orgData
    /\ UNCHANGED <<apolloStagesCache, apolloContacts, loc, firstMap, lastMap,
                   lastAttioMap, stageFetches, createsFor>>

\* updateApolloContact: the PATCH; then the sync issues the verify search.
SyncToApolloPatch ==
    /\ pc = "patch"
    /\ fn = "syncToApollo"
    /\ UNCHANGED idv
    /\ UNCHANGED orgData
    /\ UNCHANGED <<apolloStagesCache, loc, firstMap, lastMap, lastAttioMap,
                   stageFetches, createsFor>>
    /\ \/ Fails /\ UNCHANGED apolloContacts
       \/ /\ apolloContacts' =
                [i \in 1..Len(apolloContacts) |->
                    IF apolloContacts[i].id = payload.id
                    THEN Renamed2(Patched(apolloContacts, payload.id, loc.email,
                                          loc.apolloStage)[i], payload)
                    ELSE apolloContacts[i]]
          /\ SendsAfter(FALSE, TargetVerify, "verify", payload)

\* const verifyContacts = await searchApolloContacts(...); return {created: 0, updated: 1}
SyncToApolloVerify ==
    /\ pc = "verify"
    /\ fn = "syncToApollo"
    /\ UNCHANGED idv
    /\ UNCHANGED orgData
    /\ UNCHANGED <<apolloStagesCache, apolloContacts, loc, firstMap, lastMap,
                   lastAttioMap, stageFetches, createsFor>>
    /\ \/ Fails
       \/ Returns(<<0, 1>>)

\* const newContact = await createApolloContact(...); return {created: 1, updated: 0}
SyncToApolloCreate ==
    /\ pc = "create"
    /\ fn = "syncToApollo"
    /\ UNCHANGED idv
    /\ UNCHANGED orgData
    /\ UNCHANGED <<apolloStagesCache, loc, firstMap, lastMap, lastAttioMap,
                   stageFetches, createsFor>>
    /\ \/ Fails /\ UNCHANGED apolloContacts
       \/ /\ apolloContacts' =
                Append(apolloContacts,
                       WithNames(
                           WithStage(Contact(Repeat("n", Len(apolloContacts) + 1),
                                             loc.email, NULL, NULL),
                                     loc.apolloStage),
                           CreatedName(ExtractedName(AttioNames[recordId].first_name)),
                           CreatedName(ExtractedName(AttioNames[recordId].last_name))))
          /\ Returns(<<1, 0>>)


-----------------------------------------------------------------------------
(* syncFromApollo: sync-from-apollo.server.ts *)

\* apolloContact.contact_stage_id || apolloContact.lifecycle_stage || null
StageRaw(c) ==
    IF ~Falsy(c.contact_stage_id) THEN c.contact_stage_id
    ELSE IF ~Falsy(c.lifecycle_stage) THEN c.lifecycle_stage
    ELSE NULL

\* Record of a finished call of mapStageToAttio; cache is the cache it found.
AttioMapped(raw, cache, stages) ==
    [input |-> raw, cache |-> cache, output |-> mapStageToAttio(raw, stages)]

SyncFromApolloRead ==
    /\ pc = "read"
    /\ fn = "syncFromApollo"
    /\ UNCHANGED idv
    /\ UNCHANGED orgData
    /\ UNCHANGED <<apolloStagesCache, apolloContacts, firstMap, lastMap,
                   lastAttioMap, stageFetches, createsFor>>
    /\ \E answer \in {"fail", "nodata", "ok"} :
        LET email == FirstEmail(AttioPeople[recordId])
        IN  IF answer # "ok"
            THEN (IF answer = "fail" THEN Fails ELSE Throws) /\ UNCHANGED loc
            ELSE IF NoEmail(email)
            THEN Throws /\ loc' = [loc EXCEPT !.fetched = TRUE, !.email = email]
            ELSE /\ Issues(TargetSearch, "search")
                 /\ loc' = [loc EXCEPT !.fetched = TRUE, !.email = email]

\* The search answer, mapStageToAttio and validateStageMapping(null, raw), up
\* to the next request.
SyncFromApolloSearch ==
    /\ pc = "search"
    /\ fn = "syncFromApollo"
    /\ UNCHANGED idv
    /\ UNCHANGED orgData
    /\ UNCHANGED <<apolloStagesCache, apolloContacts, firstMap, lastMap,
                   stageFetches, createsFor>>
    /\ \/ Fails /\ UNCHANGED <<loc, lastAttioMap>>
       \/ \E results \in SearchAnswers(apolloContacts) :
            LET raw == IF Len(results) = 0 THEN NULL ELSE StageRaw(results[1])
                loc1 == [loc EXCEPT !.searched = TRUE, !.found = results, !.raw = raw]
            IN  IF Len(results) = 0
                THEN Throws /\ loc' = loc1 /\ UNCHANGED lastAttioMap
                ELSE IF Falsy(raw)
                THEN Issues(SourceUpdate, "update") /\ loc' = loc1 /\ UNCHANGED lastAttioMap
                ELSE IF LooksLikeStageId(raw) /\ ~CacheHit(apolloStagesCache)
                THEN Issues(StageList, "stages1") /\ loc' = loc1 /\ UNCHANGED lastAttioMap
                ELSE LET stages == IF CacheHit(apolloStagesCache)
                                   THEN apolloStagesCache[1] ELSE <<>>
                         m == AttioMapped(raw, apolloStagesCache, stages)
                     IN  /\ lastAttioMap' = <<m>>
                         /\ loc' = [loc1 EXCEPT !.attioStage = m.output]
                         /\ IF CacheHit(apolloStagesCache)
                            THEN Issues(SourceUpdate, "update")
                            ELSE Issues(StageList, "stages2")

\* The answer of listApolloContactStages inside getApolloStages, for the call
\* mapStageToAttio makes (stages1) and the one validateStageMapping makes
\* (stages2).
SyncFromApolloStages ==
    /\ pc \in {"stages1", "stages2"}
    /\ fn = "syncFromApollo"
    /\ UNCHANGED idv
    /\ UNCHANGED orgData
    /\ UNCHANGED <<apolloContacts, firstMap, lastMap, createsFor>>
    /\ \E ok \in BOOLEAN :
        LET cache2 == IF ok THEN <<remoteStages>> ELSE apolloStagesCache
            stages == IF ok THEN remoteStages ELSE <<>>
            m == AttioMapped(loc.raw, apolloStagesCache, stages)
        IN  /\ apolloStagesCache' = cache2
            /\ stageFetches' = stageFetches + (IF ok THEN 1 ELSE 0)
            /\ IF pc = "stages1"
               THEN /\ lastAttioMap' = <<m>>
                    /\ loc' = [loc EXCEPT !.attioStage = m.output]
                    /\ IF CacheHit(cache2)
                       THEN IssuesAfter(~ok, SourceUpdate, "update")
                       ELSE IssuesAfter(~ok, StageList, "stages2")
               ELSE /\ UNCHANGED <<lastAttioMap, loc>>
                    /\ IssuesAfter(~ok, SourceUpdate, "update")

\* await updatePerson(...); return {created: 0, updated: 1}
SyncFromApolloUpdate ==
    /\ pc = "update"
    /\ fn = "syncFromApollo"
    /\ UNCHANGED idv
    /\ UNCHANGED orgData
    /\ UNCHANGED <<apolloStagesCache, apolloContacts, loc, firstMap, lastMap,
                   lastAttioMap, stageFetches, createsFor>>
    /\ \/ Fails
       \/ Returns(<<0, 1>>)

-----------------------------------------------------------------------------
(* syncCompanyToApollo: sync-company-to-apollo.server.ts *)

\* s.toLowerCase().trim()
LowerTrim(s) == Trim(ToLowerCase(s))

\* What the account search can answer: nothing, any one account, or all.
AccountAnswers(accounts) ==
    {<<>>, accounts} \cup {<<accounts[i]>> : i \in 1..Len(accounts)}

\* account.name && account.name.toLowerCase().trim() === companyName.toLowerCase().trim()
ExactNameMatch(results, companyName) ==
    FindFirst({i \in 1..Len(results) :
        ~Falsy(results[i].name) /\ LowerTrim(results[i].name) = LowerTrim(companyName)})

\* account.domain.replace(/^www\./, '').toLowerCase().trim() === domain.toLowerCase().trim()
ExactDomainMatch(results, domain) ==
    FindFirst({i \in 1..Len(results) :
        /\ ~Falsy(results[i].domain)
        /\ LowerTrim(StripWww(results[i].domain)) = LowerTrim(domain)})

RECURSIVE Renamed(_, _, _)
Renamed(records, id, name) ==
    IF records = <<>> THEN <<>>
    ELSE <<IF Head(records).id = id
           THEN [Head(records) EXCEPT !.name = name]
           ELSE Head(records)>> \o Renamed(Tail(records), id, name)

\* if (accountId && bestMatch) updateApolloAccount(...) else createApolloAccount(...)
CompanyDecide(loc1, accounts) ==
    LET accountId == IF Len(accounts) > 0 THEN accounts[1].id ELSE NULL
    IN  IF ~Falsy(accountId)
        THEN /\ loc' = [loc1 EXCEPT !.searched = TRUE, !.found = accounts, !.accountId = accountId]
             /\ Issues(TargetGet, "get")
             /\ UNCHANGED createsFor
        ELSE /\ loc' = [loc1 EXCEPT !.searched = TRUE, !.found = accounts]
             /\ Issues(TargetCreate, "create")
             /\ createsFor' = [createsFor EXCEPT ![recordId] = @ + 1]

SyncCompanyRead ==
    /\ pc = "read"
    /\ fn = "syncCompanyToApollo"
    /\ UNCHANGED idv
    /\ UNCHANGED personData
    /\ UNCHANGED orgData
    /\ UNCHANGED createsFor
    /\ \E answer \in {"fail", "nodata", "ok"} :
        LET rec == AttioCompanies[recordId]
        IN  IF answer # "ok"
            THEN (IF answer = "fail" THEN Fails ELSE Throws) /\ UNCHANGED loc
            ELSE IF Falsy(rec.name)
            THEN Throws /\ loc' = [loc EXCEPT !.fetched = TRUE]
            ELSE /\ Issues(TargetSearch, "search1")
                 /\ loc' = [loc EXCEPT !.fetched = TRUE, !.name = rec.name,
                                       !.domain = rec.domain]

\* The name search and, when it gives no exact name match and a domain is
\* known, the second search.
SyncCompanySearch ==
    /\ pc \in {"search1", "search2"}
    /\ fn = "syncCompanyToApollo"
    /\ UNCHANGED idv
    /\ UNCHANGED personData
    /\ UNCHANGED orgData
    /\ \/ Fails /\ UNCHANGED <<loc, createsFor>>
       \/ \E results \in AccountAnswers(apolloAccounts) :
            IF pc = "search1"
            THEN LET m == ExactNameMatch(results, loc.name)
                     loc1 == [loc EXCEPT !.results = results]
                 IN  IF m = 0 /\ ~Falsy(loc.domain)
                     THEN /\ loc' = loc1
                          /\ Issues(TargetSearch, "search2")
                          /\ UNCHANGED createsFor
                     ELSE CompanyDecide(loc1, IF m = 0 THEN <<>> ELSE <<results[m]>>)
            ELSE LET m == ExactDomainMatch(results, loc.domain)
                 IN  CompanyDecide([loc EXCEPT !.results2 = results],
                                   IF m = 0 THEN <<>> ELSE <<results[m]>>)

\* updateApolloAccount: the read of the account; when it fails the function
\* creates an account instead.
SyncCompanyGet ==
    /\ pc = "get"
    /\ fn = "syncCompanyToApollo"
    /\ UNCHANGED idv
    /\ UNCHANGED personData
    /\ UNCHANGED orgData
    /\ UNCHANGED loc
    /\ \/ Issues(TargetUpdate, "patch") /\ UNCHANGED createsFor
       \/ /\ IssuesAfter(TRUE, TargetCreate, "create2")
          /\ createsFor' = [createsFor EXCEPT ![recordId] = @ + 1]

SyncCompanyPatch ==
    /\ pc = "patch"
    /\ fn = "syncCompanyToApollo"
    /\ UNCHANGED idv
    /\ UNCHANGED personData
    /\ UNCHANGED <<apolloOpportunities, apolloOpportunityStagesCache, loc, createsFor>>
    /\ \/ Fails /\ UNCHANGED apolloAccounts
       \/ /\ apolloAccounts' = Renamed(apolloAccounts, loc.accountId, Trim(loc.name))
          /\ Returns(<<0, 1>>)

\* createApolloAccount, called by the sync (create) or by updateApolloAccount
\* (create2), whose caller returns {created: 0, updated: 1}.
SyncCompanyCreate ==
    /\ pc \in {"create", "create2"}
    /\ fn = "syncCompanyToApollo"
    /\ UNCHANGED idv
    /\ UNCHANGED personData
    /\ UNCHANGED <<apolloOpportunities, apolloOpportunityStagesCache, loc, createsFor>>
    /\ \/ Fails /\ UNCHANGED apolloAccounts
       \/ /\ apolloAccounts' =
                Append(apolloAccounts,
                       Account(Repeat("m", Len(apolloAccounts) + 1), loc.name, NULL))
          /\ Returns(IF pc = "create" THEN <<1, 0>> ELSE <<0, 1>>)

-----------------------------------------------------------------------------
(* syncDealToApollo: sync-deal-to-apollo.server.ts, with                   *)
(* getApolloOrganizationId and the opportunity stage cache                 *)

\* What the opportunity search can answer: nothing, any one, or all.
OpportunityAnswers(opps) ==
    {<<>>, opps} \cup {<<opps[i]>> : i \in 1..Len(opps)}

\* description.includes(attioRecordIdMarker)
HasMarker(description, r) == \E i \in 1..Len(description) : description[i] = Marker(r)

\* Variant: without a match the first answer is taken.
MatchedOpp_firstAsFallback(results, r, dealName) ==
    LET byMarker == FindFirst({i \in 1..Len(results) : HasMarker(results[i].description, r)})
        byName == FindFirst({i \in 1..Len(results) :
                      /\ ~Falsy(results[i].name)
                      /\ LowerTrim(results[i].name) = LowerTrim(dealName)})
    IN  IF byMarker # 0 THEN byMarker
        ELSE IF byName # 0 THEN byName
        ELSE IF Len(results) > 0 THEN 1 ELSE 0

\* The opportunity to update: the first answer carrying the marker of the
\* record, else the first answer with the deal's name, else none (0).
MatchedOpp(results, r, dealName) ==
    LET byMarker == FindFirst({i \in 1..Len(results) : HasMarker(results[i].description, r)})
        byName == FindFirst({i \in 1..Len(results) :
                      /\ ~Falsy(results[i].name)
                      /\ LowerTrim(results[i].name) = LowerTrim(dealName)})
    IN  IF byMarker # 0 THEN byMarker ELSE byName

\* Variant: a deal without a description is sent without one.
DescriptionWithMarker_onlyWhenDescribed(description, r) ==
    IF Len(description) = 0 THEN <<>>
    ELSE IF HasMarker(description, r) THEN description
    ELSE Append(description, Marker(r))

\* The description an update sends to the target: the source description with
\* the marker, added unless it is there.
DescriptionWithMarker(description, r) ==
    IF Len(description) = 0 THEN <<Marker(r)>>
    ELSE IF HasMarker(description, r) THEN description
    ELSE Append(description, Marker(r))

\* getApolloOrganizationId, after its searches: the id of the best match.
BestAccountId(accounts, domain) ==
    IF Len(accounts) = 0 THEN NULL
    ELSE LET m == IF ~Falsy(domain) /\ Len(accounts) > 1
                  THEN ExactDomainMatch(accounts, domain) ELSE 0
             bestMatch == IF m # 0 THEN accounts[m] ELSE accounts[1]
         IN  IF Falsy(bestMatch.id) THEN NULL ELSE bestMatch.id

RECURSIVE Redescribed(_, _, _, _)
Redescribed(opps, id, name, description) ==
    IF opps = <<>> THEN <<>>
    ELSE <<IF Head(opps).id = id
           THEN [Head(opps) EXCEPT !.name = name, !.description = description]
           ELSE Head(opps)>> \o Redescribed(Tail(opps), id, name, description)

\* Manual table of opportunity-stage-mapping.server.ts, attio deal stage name
\* -> apollo opportunity stage name, as <<key, value>> pairs.
OPPORTUNITY_STAGE_NAME_MAPPING ==
    { <<<<"N", "S", "/", "R", "e", "s", "c", "h", "e", "d", "u", "l", "e">>,
         <<"N", "S", "/", "R", "e", "s", "c", "h", "e", "d", "u", "l", "e">>>>,
      <<<<"D", "i", "s", "c", "o", "v", "e", "r", "y", " ", "C", "a", "l", "l", " ", "B", "o", "o", "k", "e", "d">>,
         <<"D", "i", "s", "c", "o", "v", "e", "r", "y", " ", "C", "a", "l", "l", " ", "B", "o", "o", "k", "e", "d">>>>,
      <<<<"P", "r", "o", "p", "o", "s", "a", "l", " ", "S", "e", "n", "t">>,
         <<"P", "r", "o", "p", "o", "s", "a", "l", " ", "S", "e", "n", "t">>>>,
      <<<<"N", "e", "g", "o", "t", "i", "a", "t", "i", "o", "n">>,
         <<"N", "e", "g", "o", "t", "i", "a", "t", "i", "o", "n">>>>,
      <<<<"C", "o", "n", "t", "r", "a", "c", "t", " ", "S", "e", "n", "t">>,
         <<"C", "o", "n", "t", "r", "a", "c", "t", " ", "S", "e", "n", "t">>>>,
      <<<<"C", "l", "o", "s", "e", "d", " ", "W", "o", "n">>,
         <<"C", "l", "o", "s", "e", "d", " ", "W", "o", "n">>>>,
      <<<<"C", "l", "o", "s", "e", "d", " ", "L", "o", "s", "t">>,
         <<"C", "l", "o", "s", "e", "d", " ", "L", "o", "s", "t">>>>,
      <<<<"O", "n", " ", "H", "o", "l", "d">>,
         <<"O", "n", " ", "H", "o", "l", "d">>>>,
      <<<<"n", "s", "/", "r", "e", "s", "c", "h", "e", "d", "u", "l", "e">>,
         <<"N", "S", "/", "R", "e", "s", "c", "h", "e", "d", "u", "l", "e">>>>,
      <<<<"d", "i", "s", "c", "o", "v", "e", "r", "y", " ", "c", "a", "l", "l", " ", "b", "o", "o", "k", "e", "d">>,
         <<"D", "i", "s", "c", "o", "v", "e", "r", "y", " ", "C", "a", "l", "l", " ", "B", "o", "o", "k", "e", "d">>>>,
      <<<<"p", "r", "o", "p", "o", "s", "a", "l", " ", "s", "e", "n", "t">>,
         <<"P", "r", "o", "p", "o", "s", "a", "l", " ", "S", "e", "n", "t">>>>,
      <<<<"n", "e", "g", "o", "t", "i", "a", "t", "i", "o", "n">>,
         <<"N", "e", "g", "o", "t", "i", "a", "t", "i", "o", "n">>>>,
      <<<<"c", "o", "n", "t", "r", "a", "c", "t", " ", "s", "e", "n", "t">>,
         <<"C", "o", "n", "t", "r", "a", "c", "t", " ", "S", "e", "n", "t">>>>,
      <<<<"c", "l", "o", "s", "e", "d", " ", "w", "o", "n">>,
         <<"C", "l", "o", "s", "e", "d", " ", "W", "o", "n">>>>,
      <<<<"c", "l", "o", "s", "e", "d", " ", "l", "o", "s", "t">>,
         <<"C", "l", "o", "s", "e", "d", " ", "L", "o", "s", "t">>>>,
      <<<<"o", "n", " ", "h", "o", "l", "d">>,
         <<"O", "n", " ", "H", "o", "l", "d">>>> }

OpportunityManualLookup(key) ==
    IF \E p \in OPPORTUNITY_STAGE_NAME_MAPPING : p[1] = key
    THEN (CHOOSE p \in OPPORTUNITY_STAGE_NAME_MAPPING : p[1] = key)[2]
    ELSE NULL

\* findApolloOpportunityStageIdByName, given the list
\* getApolloOpportunityStages returned.
findApolloOpportunityStageIdByName(stageName, stages) ==
    LET normalizedSearch == normalizeStage(stageName)
        exactMatch == FindFirst({i \in 1..Len(stages) :
                          normalizeStage(stages[i].name) = normalizedSearch})
        partialMatch == FindFirst({i \in 1..Len(stages) :
                          LET normalized == normalizeStage(stages[i].name)
                          IN  /\ ~Falsy(normalized)
                              /\ \/ Includes(normalized, normalizedSearch)
                                 \/ Includes(normalizedSearch, normalized)})
    IN  IF Len(stages) = 0 THEN NULL
        ELSE IF Falsy(normalizedSearch) THEN NULL
        ELSE IF exactMatch # 0 THEN stages[exactMatch].id
        ELSE IF partialMatch # 0 THEN stages[partialMatch].id
        ELSE NULL

\* mapDealStageToApollo, given the list getApolloOpportunityStages returned.
mapDealStageToApollo(attioStage, stages) ==
    IF Falsy(attioStage) THEN attioStage
    ELSE LET trimmedStage == Trim(attioStage)
             mappedName == OpportunityManualLookup(trimmedStage)
             viaManual == IF Falsy(mappedName) THEN NULL
                          ELSE findApolloOpportunityStageIdByName(mappedName, stages)
             normalized == normalizeStage(trimmedStage)
             normalizedMappedName ==
                 IF ~Falsy(normalized) /\ normalized # trimmedStage
                 THEN OpportunityManualLookup(normalized) ELSE NULL
             viaNormalized == IF Falsy(normalizedMappedName) THEN NULL
                              ELSE findApolloOpportunityStageIdByName(normalizedMappedName, stages)
             stageId == findApolloOpportunityStageIdByName(trimmedStage, stages)
         IN  IF LooksLikeStageId(trimmedStage) THEN trimmedStage
             ELSE IF ~Falsy(viaManual) THEN viaManual
             ELSE IF ~Falsy(viaNormalized) THEN viaNormalized
             ELSE IF ~Falsy(stageId) THEN stageId
             ELSE trimmedStage

\* The list getApolloOpportunityStages returns without a request: the cached
\* one.
CachedOpportunityStages(cache) == IF CacheHit(cache) THEN cache[1] ELSE <<>>

\* Variant: the stage name is sent along with the identifier.
StageFields_both(attioStage, stages) ==
    IF Falsy(attioStage) THEN [stage_id |-> NULL, stage_name |-> NULL]
    ELSE LET stageId == mapDealStageToApollo(attioStage, stages)
         IN  IF ~Falsy(stageId) /\ LooksLikeStageId(stageId)
             THEN [stage_id |-> stageId, stage_name |-> attioStage]
             ELSE [stage_id |-> NULL, stage_name |-> attioStage]

\* The stage fields of the update data: stage_id when the mapping gave an
\* identifier, stage_name otherwise, none without a source stage.  A failed
\* stage-list lookup gives the empty list (it is caught inside the lookup).
StageFields(attioStage, stages) ==
    IF Falsy(attioStage) THEN [stage_id |-> NULL, stage_name |-> NULL]
    ELSE LET stageId == mapDealStageToApollo(attioStage, stages)
         IN  IF ~Falsy(stageId) /\ LooksLikeStageId(stageId)
             THEN [stage_id |-> stageId, stage_name |-> NULL]
             ELSE [stage_id |-> NULL, stage_name |-> attioStage]

\* updateData of syncDealToApollo for the matched opportunity.
UpdateData(r, oppId, dealName, attioStage, stages) ==
    LET st == StageFields(attioStage, stages)
    IN  Payload("updateApolloOpportunity", oppId, dealName,
                DescriptionWithMarker(AttioDeals[r].description, r),
                st.stage_id, st.stage_name, NULL, NULL)

\* The argument of createApolloOpportunity in syncDealToApollo.
CreateData(r, dealName, attioStage) ==
    Payload("createApolloOpportunity", NULL, dealName,
            IF Len(AttioDeals[r].description) = 0 THEN <<Marker(r)>>
            ELSE Append(AttioDeals[r].description, Marker(r)),
            NULL, IF Falsy(attioStage) THEN NULL ELSE attioStage, NULL, NULL)

\* The account lookup is over (found, not found, or failed and caught): the
\* sync goes on with the opportunity search.
OrgDoneAfter(failure, accountId) ==
    /\ loc' = [loc EXCEPT !.accountId = accountId]
    /\ IF fn = "getApolloOrganizationId"
       THEN Returns(<<accountId>>)
       ELSE IssuesAfter(failure, TargetSearch, "opp_search1")

OrgDone(accountId) == OrgDoneAfter(FALSE, accountId)

\* getApolloOrganizationId throws: into the catch of syncDealToApollo, which
\* goes on without an account, or out of the function when the dialog called it.
OrgThrows(failure) ==
    IF fn = "getApolloOrganizationId"
    THEN ThrowsAfter(failure) /\ UNCHANGED loc
    ELSE OrgDoneAfter(failure, NULL)

\* The company record getApolloOrganizationId reads.
OrgRecordId ==
    IF fn = "getApolloOrganizationId" THEN recordId
    ELSE AttioDeals[recordId].company[1]

SyncDealRead ==
    /\ pc = "read"
    /\ fn = "syncDealToApollo"
    /\ UNCHANGED idv
    /\ UNCHANGED personData
    /\ UNCHANGED orgData
    /\ UNCHANGED createsFor
    /\ \E answer \in {"fail", "nodata", "ok"} :
        LET rec == AttioDeals[recordId]
            loc1 == [loc EXCEPT !.fetched = TRUE, !.name = rec.name,
                                !.attioStage = IF rec.stage = NULL THEN NULL
                                               ELSE Trim(rec.stage)]
        IN  IF answer # "ok"
            THEN (IF answer = "fail" THEN Fails ELSE Throws) /\ UNCHANGED loc
            ELSE IF Falsy(rec.name)
            THEN Throws /\ loc' = [loc EXCEPT !.fetched = TRUE]
            ELSE IF rec.company # NULL
            THEN Issues(SourceRead, "org_read") /\ loc' = loc1
            ELSE Issues(TargetSearch, "opp_search1") /\ loc' = loc1

\* getApolloOrganizationId: the read of the company record.  Whatever it or a
\* later search of it throws is caught by the sync.
SyncDealOrgRead ==
    /\ pc = "org_read"
    /\ fn \in {"syncDealToApollo", "getApolloOrganizationId"}
    /\ UNCHANGED idv
    /\ UNCHANGED personData
    /\ UNCHANGED orgData
    /\ UNCHANGED createsFor
    /\ \E answer \in {"fail", "nodata", "ok"} :
        LET k == AttioCompanies[OrgRecordId]
            loc1 == [loc EXCEPT !.companyName = k.name, !.domain = k.domain]
        IN  IF answer # "ok"
            THEN OrgThrows(answer = "fail")
            ELSE IF ~Falsy(k.domain)
            THEN /\ loc' = loc1
                 /\ IF ~Falsy(k.name)
                    THEN Issues(TargetSearch, "org_s1")
                    ELSE Issues(TargetSearch, "org_s2")
            ELSE IF ~Falsy(k.name)
            THEN Issues(TargetSearch, "org_s4") /\ loc' = loc1
            ELSE OrgDone(NULL)

\* getApolloOrganizationId: the search by name filtered by domain (org_s1),
\* the search by domain (org_s2) and the fallback search by name (org_s4).
SyncDealOrgSearch ==
    /\ pc \in {"org_s1", "org_s2", "org_s4"}
    /\ fn \in {"syncDealToApollo", "getApolloOrganizationId"}
    /\ UNCHANGED idv
    /\ UNCHANGED personData
    /\ UNCHANGED orgData
    /\ UNCHANGED createsFor
    /\ \/ OrgThrows(TRUE)
       \/ \E results \in AccountAnswers(apolloAccounts) :
            LET m == ExactDomainMatch(results, loc.domain)
            IN  CASE pc = "org_s1" ->
                       IF m # 0
                       THEN OrgDone(BestAccountId(<<results[m]>>, loc.domain))
                       ELSE Issues(TargetSearch, "org_s2") /\ UNCHANGED loc
                  [] pc = "org_s2" ->
                       IF m # 0
                       THEN OrgDone(BestAccountId(<<results[m]>>, loc.domain))
                       ELSE IF ~Falsy(loc.companyName)
                       THEN Issues(TargetSearch, "org_s4") /\ UNCHANGED loc
                       ELSE OrgDone(NULL)
                  [] pc = "org_s4" ->
                       OrgDone(BestAccountId(results, loc.domain))

\* The opportunity search by name, the one by keyword when the first answers
\* nothing, the match and the branch on it.
SyncDealOppSearch ==
    /\ pc \in {"opp_search1", "opp_search2"}
    /\ fn = "syncDealToApollo"
    /\ UNCHANGED idv
    /\ UNCHANGED personData
    /\ UNCHANGED orgData
    /\ \/ Fails /\ UNCHANGED <<loc, createsFor>>
       \/ \E results \in OpportunityAnswers(apolloOpportunities) :
            LET m == MatchedOpp(results, recordId, loc.name)
                found == IF m = 0 THEN <<>> ELSE <<results[m]>>
                loc1 == [loc EXCEPT !.searched = TRUE, !.found = found,
                                    !.results = results]
            IN  IF pc = "opp_search1" /\ Len(results) = 0
                THEN UNCHANGED <<loc, createsFor>> /\ Issues(TargetSearch, "opp_search2")
                ELSE IF m = 0
                THEN /\ loc' = loc1
                     /\ SendsAfter(FALSE, TargetCreate, "create",
                                   CreateData(recordId, loc.name, loc.attioStage))
                     /\ createsFor' = [createsFor EXCEPT ![recordId] = @ + 1]
                ELSE IF /\ ~Falsy(loc.attioStage)
                        /\ ~LooksLikeStageId(loc.attioStage)
                        /\ ~CacheHit(apolloOpportunityStagesCache)
                THEN /\ loc' = [loc1 EXCEPT !.endpoint = 1]
                     /\ Issues(StageList, "opp_stages")
                     /\ UNCHANGED createsFor
                ELSE /\ loc' = loc1
                     /\ SendsAfter(FALSE, TargetUpdate, "patch",
                                   UpdateData(recordId, found[1].id, loc.name, loc.attioStage,
                                              CachedOpportunityStages(apolloOpportunityStagesCache)))
                     /\ UNCHANGED createsFor

\* listApolloOpportunityStages inside getApolloOpportunityStages: one endpoint
\* after the other until one answers; the list, empty when none did, is cached.
SyncDealStages ==
    /\ pc = "opp_stages"
    /\ fn = "syncDealToApollo"
    /\ UNCHANGED idv
    /\ UNCHANGED personData
    /\ UNCHANGED <<apolloAccounts, apolloOpportunities, createsFor>>
    /\ \E ok \in BOOLEAN :
        IF ok
        THEN /\ apolloOpportunityStagesCache' = <<RemoteOpportunityStages>>
             /\ SendsAfter(FALSE, TargetUpdate, "patch",
                           UpdateData(recordId, loc.found[1].id, loc.name, loc.attioStage,
                                      RemoteOpportunityStages))
             /\ UNCHANGED loc
        ELSE IF loc.endpoint < 6
        THEN /\ IssuesAfter(TRUE, StageList, "opp_stages")
             /\ loc' = [loc EXCEPT !.endpoint = @ + 1]
             /\ UNCHANGED apolloOpportunityStagesCache
        ELSE /\ apolloOpportunityStagesCache' = << <<>> >>
             /\ SendsAfter(TRUE, TargetUpdate, "patch",
                           UpdateData(recordId, loc.found[1].id, loc.name, loc.attioStage, <<>>))
             /\ UNCHANGED loc

SyncDealPatch ==
    /\ pc = "patch"
    /\ fn = "syncDealToApollo"
    /\ UNCHANGED idv
    /\ UNCHANGED personData
    /\ UNCHANGED <<apolloAccounts, apolloOpportunityStagesCache, loc, createsFor>>
    /\ \/ Fails /\ UNCHANGED apolloOpportunities
       \/ /\ apolloOpportunities' =
                Redescribed(apolloOpportunities, payload.id, Trim(payload.name),
                            payload.description)
          /\ Returns(<<0, 1>>)

SyncDealCreate ==
    /\ pc = "create"
    /\ fn = "syncDealToApollo"
    /\ UNCHANGED idv
    /\ UNCHANGED personData
    /\ UNCHANGED <<apolloAccounts, apolloOpportunityStagesCache, loc, createsFor>>
    /\ \/ Fails /\ UNCHANGED apolloOpportunities
       \/ /\ apolloOpportunities' =
                Append(apolloOpportunities,
                       Opportunity(Repeat("q", Len(apolloOpportunities) + 1),
                                   payload.name, payload.description, loc.accountId))
          /\ Returns(<<1, 0>>)

-----------------------------------------------------------------------------
(* The dialog: apollo-sync-dialog.tsx, with detectObjectType and the        *)
(* functions that look an id up                                             *)

\* The object a record belongs to: the only one whose read answers with data.
TypeOf(r) ==
    IF r \in PersonIds THEN "people"
    ELSE IF r \in CompanyIds THEN "companies"
    ELSE "deals"

\* Variant: the deal is tried first and the person last.
DetectedAt_dealsFirst(at) ==
    CASE at = "detect1" -> "deals"
      [] at = "detect2" -> "companies"
      [] at = "detect3" -> "people"

\* detectObjectType tries getPerson, getCompany and getDeal in this order.
DetectedAt(at) ==
    CASE at = "detect1" -> "people"
      [] at = "detect2" -> "companies"
      [] at = "detect3" -> "deals"

NextDetect(at) == IF at = "detect1" THEN "detect2" ELSE "detect3"

\* The function a handler of the dialog calls for an object type.
FunctionFor(c, type) ==
    IF c = "uiSync"
    THEN CASE type = "people" -> "syncToApollo"
           [] type = "companies" -> "syncCompanyToApollo"
           [] type = "deals" -> "syncDealToApollo"
    ELSE CASE type = "people" -> "getApolloContactId"
           [] type = "companies" -> "getApolloOrganizationId"
           [] type = "deals" -> "getApolloOpportunityId"

\* A click: the handler sets its first message and calls detectObjectType.
UiBegin(c, r) ==
    /\ pc \in {"idle", "done"}
    /\ group = (IF r \in PersonIds THEN "person" ELSE "org")
    /\ invocations < MaxInvocations
    /\ invocations' = invocations + 1
    /\ fn' = "detectObjectType"
    /\ caller' = c
    /\ recordId' = r
    /\ pc' = "detect1"
    /\ trace' = <<SourceRead>>
    /\ inflight' = AfterIssue(inflight)
    /\ loc' = [NoLoc EXCEPT !.createsBefore = createsFor[r]]
    /\ syncOutcome' = "none"
    /\ result' = <<>>
    /\ handlerOutcome' = "none"
    /\ thrown' = <<>>
    /\ failed' = FALSE
    /\ payload' = NoPayload
    /\ UNCHANGED lagged
    /\ UNCHANGED updatedBy
    /\ message' = IF c = "uiSync" THEN <<"Detecting record type...">>
                  ELSE <<"Finding record in Apollo...">>
    /\ lastMap' = <<>>
    /\ lastAttioMap' = <<>>
    /\ UNCHANGED <<remoteStages, apolloStagesCache, apolloContacts, firstMap,
                   stageFetches, createsFor, group>>
    /\ UNCHANGED orgData

\* Records the dialog is opened on: a person, a company and a deal.
UiRecordIds == {"p1", "k1", "d1"}

HandleSyncToApollo(r) == UiBegin("uiSync", r)

HandleViewInApollo(r) == UiBegin("uiView", r)

\* detectObjectType: the answer of one read, with data ("data") or without,
\* failed or not ("none").  A failed read is caught and the next object is
\* tried; with the type known the handler calls the function
\* for it, with no type handleSyncToApollo throws inside its try and
\* handleViewInApollo sets a message.
DetectObjectType ==
    /\ pc \in {"detect1", "detect2", "detect3"}
    /\ fn = "detectObjectType"
    /\ UNCHANGED <<remoteStages, caller, recordId, invocations, group, createsFor>>
    /\ UNCHANGED personData
    /\ UNCHANGED orgData
    /\ \E answer \in {"fail", "ok"} :
        IF answer = "ok" /\ TypeOf(recordId) = DetectedAt(pc)
        THEN /\ fn' = FunctionFor(caller, DetectedAt(pc))
             /\ loc' = [loc EXCEPT !.probes = Append(@, "data"),
                                   !.detected = DetectedAt(pc)]
             /\ pc' = (IF fn' = "getApolloOrganizationId" THEN "org_read" ELSE "read")
             /\ trace' = <<SourceRead>>
             /\ inflight' = AfterIssue(AfterAwait(inflight))
             /\ message' = IF caller = "uiSync"
                           THEN <<"Syncing...", DetectedAt(pc)>> ELSE message
             /\ failed' = FALSE
             /\ payload' = NoPayload
             /\ UNCHANGED lagged
             /\ UNCHANGED updatedBy
             /\ UNCHANGED <<syncOutcome, result, handlerOutcome, thrown>>
        ELSE IF pc # "detect3"
        THEN /\ fn' = fn
             /\ loc' = [loc EXCEPT !.probes = Append(@, "none")]
             /\ IssuesAfter(answer = "fail", SourceRead, NextDetect(pc))
        ELSE /\ fn' = fn
             /\ loc' = [loc EXCEPT !.probes = Append(@, "none"), !.detected = "null"]
             /\ failed' = (failed \/ answer = "fail")
             /\ UNCHANGED <<payload, updatedBy, lagged>>
             /\ pc' = "done"
             /\ trace' = trace
             /\ inflight' = AfterAwait(inflight)
             /\ handlerOutcome' = CallerOutcome(caller, "threw")
             /\ UNCHANGED <<syncOutcome, result>>
             /\ IF caller = "uiSync"
                THEN /\ thrown' = ErrorMessage("handleSyncToApollo", "type")
                     /\ message' = UiErrorMessage(ErrorMessage("handleSyncToApollo", "type"))
                ELSE /\ thrown' = <<>>
                     /\ message' = <<"Could not determine record type.">>

\* getApolloContactId: the read of the person record.
GetApolloContactIdRead ==
    /\ pc = "read"
    /\ fn = "getApolloContactId"
    /\ UNCHANGED idv
    /\ UNCHANGED personData
    /\ UNCHANGED orgData
    /\ UNCHANGED createsFor
    /\ \E answer \in {"fail", "nodata", "ok"} :
        LET email == FirstEmail(AttioPeople[recordId])
        IN  IF answer # "ok"
            THEN (IF answer = "fail" THEN Fails ELSE Throws) /\ UNCHANGED loc
            ELSE IF Falsy(email)
            THEN Throws /\ loc' = [loc EXCEPT !.fetched = TRUE, !.email = email]
            ELSE /\ Issues(TargetSearch, "search")
                 /\ loc' = [loc EXCEPT !.fetched = TRUE, !.email = email]

\* getApolloContactId: the search; the id of the first contact, or null.
GetApolloContactIdSearch ==
    /\ pc = "search"
    /\ fn = "getApolloContactId"
    /\ UNCHANGED idv
    /\ UNCHANGED personData
    /\ UNCHANGED orgData
    /\ UNCHANGED createsFor
    /\ \/ Fails /\ UNCHANGED loc
       \/ \E results \in SearchAnswers(apolloContacts) :
            /\ loc' = [loc EXCEPT !.searched = TRUE, !.found = results]
            /\ IF Len(results) > 0 /\ ~Falsy(results[1].id)
               THEN Returns(<<results[1].id>>)
               ELSE Returns(<<NULL>>)

\* getApolloOpportunityId: the read of the deal record.
GetApolloOpportunityIdRead ==
    /\ pc = "read"
    /\ fn = "getApolloOpportunityId"
    /\ UNCHANGED idv
    /\ UNCHANGED personData
    /\ UNCHANGED orgData
    /\ UNCHANGED createsFor
    /\ \E answer \in {"fail", "nodata", "ok"} :
        LET rec == AttioDeals[recordId]
        IN  IF answer # "ok"
            THEN (IF answer = "fail" THEN Fails ELSE Throws) /\ UNCHANGED loc
            ELSE IF Falsy(rec.name)
            THEN Throws /\ loc' = [loc EXCEPT !.fetched = TRUE]
            ELSE /\ Issues(TargetSearch, "search1")
                 /\ loc' = [loc EXCEPT !.fetched = TRUE, !.name = rec.name]

\* getApolloOpportunityId: the searches; the id of the first result with the
\* name of the deal, else the id of the first result, else null.
GetApolloOpportunityIdSearch ==
    /\ pc \in {"search1", "search2"}
    /\ fn = "getApolloOpportunityId"
    /\ UNCHANGED idv
    /\ UNCHANGED personData
    /\ UNCHANGED orgData
    /\ UNCHANGED createsFor
    /\ \/ Fails /\ UNCHANGED loc
       \/ \E results \in OpportunityAnswers(apolloOpportunities) :
            LET m == FindFirst({i \in 1..Len(results) :
                         /\ ~Falsy(results[i].name)
                         /\ LowerTrim(results[i].name) = LowerTrim(loc.name)})
            IN  IF pc = "search1" /\ Len(results) = 0
                THEN Issues(TargetSearch, "search2") /\ UNCHANGED loc
                ELSE /\ loc' = [loc EXCEPT !.searched = TRUE, !.found = results]
                     /\ IF m # 0 /\ ~Falsy(results[m].id)
                        THEN Returns(<<results[m].id>>)
                        ELSE IF Len(results) > 0 /\ ~Falsy(results[1].id)
                        THEN Returns(<<results[1].id>>)
                        ELSE Returns(<<NULL>>)

-----------------------------------------------------------------------------
(* extractAttioValue: attribute-mapping.server.ts,                         *)
(* sync-company-to-apollo.server.ts, sync-deal-to-apollo.server.ts         *)

\* A JSON value: its kind ("undefined", "null", "string", "number",
\* "boolean", "object", "array"), its text for a string, number or boolean,
\* its fields for an object and its first entries for an array.  The value of
\* a field is a value without fields; "option.title" is the title of the
\* object held by the field option.
FieldNames ==
    {"option", "option.title", "value", "name", "title", "label", "first_name",
     "last_name", "full_name", "email_address", "phone_number"}

Scalar(k, t) == [k |-> k, s |-> t]

Undefined == Scalar("undefined", <<>>)

JsNull == Scalar("null", <<>>)

NoFields == [n \in FieldNames |-> Undefined]

\* A value that is the first entry of an array or the argument itself.
Node(x) == [k |-> x.k, s |-> x.s, f |-> NoFields]

Obj(f) == [k |-> "object", s |-> <<>>, f |-> f]

Top(n) == [k |-> n.k, s |-> n.s, f |-> n.f, a |-> <<>>]

Arr(entries) == [k |-> "array", s |-> <<>>, f |-> NoFields, a |-> entries]

\* if (x): the value is truthy.
Truthy(x) ==
    CASE x.k = "string" -> Len(x.s) > 0
      [] x.k = "number" -> x.s # <<"0">>
      [] x.k = "boolean" -> x.s = <<"t", "r", "u", "e">>
      [] x.k \in {"object", "array"} -> TRUE
      [] OTHER -> FALSE

\* String(x): the text of a string, number or boolean, "[object Object]"
\* for an object.
StringOf(x) ==
    CASE x.k \in {"string", "number", "boolean"} -> x.s
      [] x.k = "null" -> <<"n", "u", "l", "l">>
      [] x.k = "undefined" -> <<"u", "n", "d", "e", "f", "i", "n", "e", "d">>
      [] OTHER -> <<"[object Object]">>

\* entry?.field: the field of an object, undefined for anything else.
Get(x, field) == IF x.k = "object" THEN x.f[field] ELSE Undefined

\* a || b || c || null
OrChain(xs) ==
    LET S == {i \in 1..Len(xs) : Truthy(xs[i])}
    IN  IF S = {} THEN JsNull ELSE xs[FindFirst(S)]

\* The first of the fields, in the order given, that is a string (typeof
\* field === 'string'), null if none is.
FirstString(x, fields) ==
    LET S == {i \in 1..Len(fields) : Get(x, fields[i]).k = "string"}
    IN  IF S = {} THEN JsNull ELSE Get(x, fields[FindFirst(S)])

\* extractAttioValue of attribute-mapping.server.ts.
extractAttioValue(attioData) ==
    IF ~Truthy(attioData) THEN JsNull
    ELSE IF attioData.k = "array" /\ Len(attioData.a) > 0
    THEN LET entry == attioData.a[1]
         IN  IF Truthy(Get(entry, "option.title"))
             THEN Scalar("string", StringOf(Get(entry, "option.title")))
             ELSE IF Get(entry, "value").k \notin {"undefined", "null"}
             THEN Scalar("string", StringOf(Get(entry, "value")))
             ELSE IF Truthy(Get(entry, "first_name")) \/ Truthy(Get(entry, "last_name"))
             THEN IF Truthy(Get(entry, "full_name"))
                  THEN Scalar("string", StringOf(Get(entry, "full_name")))
                  ELSE IF Truthy(Get(entry, "first_name")) /\ Truthy(Get(entry, "last_name"))
                  THEN Scalar("string", Trim(StringOf(Get(entry, "first_name")) \o <<" ">>
                                \o StringOf(Get(entry, "last_name"))))
                  ELSE Scalar("string", StringOf(OrChain(<<Get(entry, "first_name"), Get(entry, "last_name")>>)))
             ELSE IF Truthy(Get(entry, "email_address"))
             THEN Scalar("string", StringOf(Get(entry, "email_address")))
             ELSE IF Truthy(Get(entry, "phone_number"))
             THEN Scalar("string", StringOf(Get(entry, "phone_number")))
             ELSE OrChain(<<Get(entry, "title"), Get(entry, "name"), Get(entry, "label")>>)
    ELSE IF attioData.k \in {"string", "number"} THEN Scalar("string", StringOf(attioData))
    ELSE IF attioData.k \in {"object", "array"}
    THEN FirstString(attioData, <<"value", "title", "name", "label">>)
    ELSE JsNull

\* extractAttioValue of sync-company-to-apollo.server.ts.
extractAttioValueCompany(attioData) ==
    IF ~Truthy(attioData) THEN JsNull
    ELSE IF attioData.k = "array" /\ Len(attioData.a) > 0
    THEN LET entry == attioData.a[1]
         IN  IF Get(entry, "value").k \notin {"undefined", "null"}
             THEN Scalar("string", StringOf(Get(entry, "value")))
             ELSE IF Truthy(Get(entry, "name"))
             THEN Scalar("string", StringOf(Get(entry, "name")))
             ELSE OrChain(<<Get(entry, "title"), Get(entry, "label")>>)
    ELSE IF attioData.k \in {"string", "number"} THEN Scalar("string", StringOf(attioData))
    ELSE IF attioData.k \in {"object", "array"}
    THEN FirstString(attioData, <<"value", "name", "title", "label">>)
    ELSE JsNull

\* The chain both branches of the deal variant go through.
DealChain(x) ==
    IF Truthy(Get(x, "option.title")) THEN Scalar("string", Trim(StringOf(Get(x, "option.title"))))
    ELSE IF Get(x, "value").k \notin {"undefined", "null"} THEN Scalar("string", Trim(StringOf(Get(x, "value"))))
    ELSE IF Truthy(Get(x, "title")) THEN Scalar("string", Trim(StringOf(Get(x, "title"))))
    ELSE IF Truthy(Get(x, "name")) THEN Scalar("string", Trim(StringOf(Get(x, "name"))))
    ELSE IF Truthy(Get(x, "label")) THEN Scalar("string", Trim(StringOf(Get(x, "label"))))
    ELSE JsNull

\* extractAttioValue of sync-deal-to-apollo.server.ts.
extractAttioValueDeal(attioData) ==
    IF ~Truthy(attioData) THEN JsNull
    ELSE IF attioData.k = "array" /\ Len(attioData.a) > 0
    THEN DealChain(attioData.a[1])
    ELSE IF attioData.k = "string" THEN Scalar("string", Trim(attioData.s))
    ELSE IF attioData.k = "number" THEN Scalar("string", StringOf(attioData))
    ELSE IF attioData.k \in {"object", "array"} THEN DealChain(attioData)
    ELSE JsNull

\* Values the extraction is applied to.
ScalarPool ==
    { JsNull, Scalar("string", <<>>), Scalar("string", <<"5", "5", "5", "1", "2", "3", "4">>), Scalar("string", <<" ", "x", " ">>), Scalar("number", <<"0">>), Scalar("number", <<"5">>),
      Scalar("boolean", <<"t", "r", "u", "e">>),
      Scalar("boolean", <<"f", "a", "l", "s", "e">>) }

\* An object with the candidate fields of the extraction.
Entry(ot, v, n, t, l) ==
    Obj([NoFields EXCEPT
            !["option"] = IF ot = Undefined THEN Undefined ELSE Scalar("object", <<>>),
            !["option.title"] = ot,
            !["value"] = v,
            !["name"] = n,
            !["title"] = t,
            !["label"] = l])

EntryPool ==
    { Entry(ot, v, n, t, l) :
        ot \in {Undefined, Scalar("string", <<"V", "P", " ", "S", "a", "l", "e", "s">>)},
        v \in {Undefined, Scalar("string", <<"A", "c", "m", "e">>), Scalar("string", <<>>)},
        n \in {Undefined, Scalar("string", <<"N">>)},
        t \in {Undefined, Scalar("string", <<"T", " ">>), Scalar("number", <<"5">>)},
        l \in {Undefined, Scalar("string", <<"L">>)} }
    \cup
    { Obj([NoFields EXCEPT !["first_name"] = Scalar("string", <<"A">>), !["last_name"] = Scalar("string", <<"B">>)]),
      Obj([NoFields EXCEPT !["first_name"] = Scalar("string", <<"A">>), !["name"] = Scalar("string", <<"N">>)]),
      Obj([NoFields EXCEPT !["email_address"] = Scalar("string", <<"a">>), !["title"] = Scalar("string", <<"T">>)]),
      Obj([NoFields EXCEPT !["option"] = JsNull, !["label"] = Scalar("string", <<"L">>)]),
      Obj([NoFields EXCEPT !["value"] = Scalar("object", <<>>)]),
      Obj([NoFields EXCEPT !["name"] = Scalar("object", <<>>)]) }

JsonPool ==
    { Top(Node(x)) : x \in ScalarPool }
    \cup { Arr(<<>>) }
    \cup { Arr(<<Node(x)>>) : x \in ScalarPool }
    \cup { Arr(<<e>>) : e \in EntryPool }
    \cup { Top(e) : e \in EntryPool }

-----------------------------------------------------------------------------
(* Specification *)

Next ==
    \/ \E r \in PersonIds : Begin("syncToApollo", "direct", r)
    \/ \E o \in {"people", "companies"}, r \in PersonIds : OnRecordUpdated(o, r)
    \/ SyncToApolloRead
    \/ SyncToApolloStages
    \/ SyncToApolloSearch
    \/ SyncToApolloGet
    \/ SyncToApolloPatch
    \/ SyncToApolloVerify
    \/ SyncToApolloCreate
    \/ \E r \in PersonIds : Begin("syncFromApollo", "direct", r)
    \/ SyncFromApolloRead
    \/ SyncFromApolloSearch
    \/ SyncFromApolloStages
    \/ SyncFromApolloUpdate
    \/ \E r \in CompanyIds : Begin("syncCompanyToApollo", "direct", r)
    \/ SyncCompanyRead
    \/ SyncCompanySearch
    \/ SyncCompanyGet
    \/ SyncCompanyPatch
    \/ SyncCompanyCreate
    \/ \E r \in DealIds : Begin("syncDealToApollo", "direct", r)
    \/ SyncDealRead
    \/ SyncDealOrgRead
    \/ SyncDealOrgSearch
    \/ SyncDealOppSearch
    \/ SyncDealStages
    \/ SyncDealPatch
    \/ SyncDealCreate
    \/ \E r \in UiRecordIds : HandleSyncToApollo(r)
    \/ \E r \in UiRecordIds : HandleViewInApollo(r)
    \/ DetectObjectType
    \/ GetApolloContactIdRead
    \/ GetApolloContactIdSearch
    \/ GetApolloOpportunityIdRead
    \/ GetApolloOpportunityIdSearch

Spec == Init /\ [][Next]_vars

\* The extraction on its own: a caller applies its extractAttioValue to a value.
InitExtract ==
    /\ group = "person"
    /\ remoteStages = <<>>
    /\ apolloStagesCache = <<>>
    /\ apolloContacts = <<>>
    /\ apolloAccounts = <<>>
    /\ apolloOpportunities = <<>>
    /\ apolloOpportunityStagesCache = <<>>
    /\ pc = "call"
    /\ fn = "extractAttioValue"
    /\ caller \in {"attribute-mapping", "sync-company", "sync-deal"}
    /\ recordId = "none"
    /\ trace = <<>>
    /\ inflight = 0
    /\ loc \in {[attioData |-> v] : v \in JsonPool}
    /\ syncOutcome = "none"
    /\ result = <<>>
    /\ handlerOutcome = "none"
    /\ firstMap = {}
    /\ lastMap = <<>>
    /\ lastAttioMap = <<>>
    /\ stageFetches = 0
    /\ createsFor = [r \in RecordIds |-> 0]
    /\ invocations = 0
    /\ thrown = <<>>
    /\ message = <<>>
    /\ failed = FALSE
    /\ payload = NoPayload
    /\ lagged = FALSE
    /\ updatedBy = {}

ExtractAttioValue ==
    /\ pc = "call"
    /\ fn = "extractAttioValue"
    /\ pc' = "done"
    /\ syncOutcome' = "returned"
    /\ result' = << CASE caller = "attribute-mapping" -> extractAttioValue(loc.attioData)
                     [] caller = "sync-company" -> extractAttioValueCompany(loc.attioData)
                     [] caller = "sync-deal" -> extractAttioValueDeal(loc.attioData) >>
    /\ UNCHANGED <<remoteStages, apolloStagesCache, apolloContacts, apolloAccounts,
                   apolloOpportunities, apolloOpportunityStagesCache, fn, caller,
                   recordId, trace, inflight, loc, handlerOutcome, firstMap,
                   lastMap, lastAttioMap, stageFetches, createsFor, invocations,
                   group, thrown, message, failed, payload, updatedBy, lagged>>

SpecExtract == InitExtract /\ [][ExtractAttioValue]_vars

-----------------------------------------------------------------------------
(* Properties *)

TargetRequests(t) == {i \in 1..Len(t) : t[i].side = "target"}

\* The first element of email_addresses is absent or carries no address.
NoFirstEmail(r) ==
    LET es == AttioPeople[r].email_addresses
    IN  Len(es) = 0 \/ Len(es[1]) = 0 \/ es[1] = NULL

\* C1: when the person record syncToApollo fetched has no first email
\* address, the invocation has thrown and its trace holds no request to the
\* target (no stage-list fetch, search, create or update).
C1_NoEmailThrowsBeforeTarget ==
    (fn = "syncToApollo" /\ loc.fetched /\ NoFirstEmail(recordId))
        => (syncOutcome = "threw" /\ TargetRequests(trace) = {})

C1_Witness ==
    /\ fn = "syncToApollo"
    /\ loc.fetched
    /\ NoFirstEmail(recordId)
    /\ Len(AttioPeople[recordId].email_addresses) > 1
    /\ syncOutcome = "threw"

\* Positions of the stages whose trimmed, lower-cased name equals the
\* trimmed, lower-cased s.
ExactlyNamed(stages, s) ==
    {i \in 1..Len(stages) : Trim(ToLowerCase(stages[i].name)) = Trim(ToLowerCase(s))}

\* Positions of the stages whose name contains s or is contained in s,
\* case-insensitively and after trimming.
SubstringNamed(stages, s) ==
    {i \in 1..Len(stages) :
        \/ Includes(Trim(ToLowerCase(stages[i].name)), Trim(ToLowerCase(s)))
        \/ Includes(Trim(ToLowerCase(s)), Trim(ToLowerCase(stages[i].name)))}

First(S) == CHOOSE i \in S : \A j \in S : i <= j

C3_SameAsFirstCall ==
    \A k \in 1..Len(lastMap) :
        \A p \in firstMap : p[1] = lastMap[k].input => p[2] = lastMap[k].output

\* C4: for a non-empty stage name s with no entry in the manual table and no
\* exact and no substring match in the stage list the call got (the empty
\* list too, also after a failed fetch), mapStageToApollo(s) returned s
\* itself, character for character.
C4_PassThroughUnchanged ==
    \A k \in 1..Len(lastMap) :
        LET m == lastMap[k]
        IN  (/\ ~Falsy(m.input)
             /\ \A p \in STAGE_NAME_MAPPING :
                    p[1] # m.input /\ p[1] # Trim(ToLowerCase(m.input))
             /\ SubstringNamed(m.stages, m.input) = {})
                => m.output = m.input

C4_Witness ==
    \E k \in 1..Len(lastMap) :
        LET m == lastMap[k]
        IN  /\ Len(m.stages) > 0
            /\ SubstringNamed(m.stages, m.input) = {}
            /\ Trim(ToLowerCase(m.input)) # m.input
            /\ m.output = m.input

\* C5: for a stage {id, name} of the cached stage list, mapStageToAttio(id)
\* returns the local text of the stage (the key of the manual table whose
\* value equals name case-insensitively, else name) and not the id, for
\* short ids too.
C5_ReverseMapsEveryCachedId ==
    \A k \in 1..Len(lastAttioMap) :
        LET m == lastAttioMap[k]
        IN  \A i \in 1..(IF Len(m.cache) = 1 THEN Len(m.cache[1]) ELSE 0) :
                m.cache[1][i].id = m.input
                    => /\ m.output # m.input
                       /\ \/ m.output = m.cache[1][i].name
                          \/ \E p \in STAGE_NAME_MAPPING :
                                /\ m.output = p[1]
                                /\ ToLowerCase(p[2]) = ToLowerCase(m.cache[1][i].name)

\* C6: syncToApollo issues an update only when the contact the search
\* returned has the source email, compared case-insensitively; when the
\* search returned a contact with another email it issues a create and no
\* update.
C6_UpdateOnlyOnEmailMatch ==
    (fn = "syncToApollo" /\ loc.searched /\ Len(loc.found) > 0
        /\ ~Falsy(loc.found[1].id))
        => IF ToLowerCase(loc.found[1].email) = ToLowerCase(loc.email)
           THEN Count(trace, TargetCreate) = 0
           ELSE Count(trace, TargetUpdate) = 0 /\ Count(trace, TargetCreate) = 1

\* Contacts of the target that carry the email e.
ContactsWithEmail(e) ==
    {i \in 1..Len(apolloContacts) : apolloContacts[i].email = e}

\* C7: whenever the search of a person sync answers nothing, the invocation
\* issues a create, also when an earlier invocation for the same record has
\* already issued one: the creates for the record grow by one each time.
C7_EmptySearchCreatesAgain ==
    (fn = "syncToApollo" /\ loc.searched /\ Len(loc.found) = 0)
        => /\ Count(trace, TargetCreate) = 1
           /\ createsFor[recordId] = loc.createsBefore + 1

\* Two invocations for one record have each created a contact.
C7_Witness ==
    /\ fn = "syncToApollo"
    /\ loc.searched
    /\ Len(loc.found) = 0
    /\ loc.createsBefore = 1
    /\ createsFor[recordId] = 2
    /\ syncOutcome = "returned"
    /\ Cardinality(ContactsWithEmail(loc.email)) >= 2

\* C8: the requests of an invocation are issued one at a time: never two in
\* flight; every request to the target comes after the source read, every
\* create or update after a target search, the verify read after the update
\* and no update after the verify read.
C8_SequentialOrderedRequests ==
    /\ inflight \in {0, 1}
    /\ \A i \in 1..Len(trace) :
        /\ trace[i].side = "target"
              => \E j \in 1..(i - 1) : trace[j] = SourceRead
        /\ trace[i] \in {TargetCreate, TargetUpdate}
              => \E j \in 1..(i - 1) : trace[j] = TargetSearch
        /\ trace[i] = TargetVerify
              => /\ \E j \in 1..(i - 1) : trace[j] = TargetUpdate
                 /\ \A j \in (i + 1)..Len(trace) : trace[j] # TargetUpdate

C8_Witness ==
    /\ pc = "done"
    /\ syncOutcome = "returned"
    /\ inflight = 0
    /\ \E i, j, k, l \in 1..Len(trace) :
        /\ i < j /\ j < k /\ k < l
        /\ trace[i] = SourceRead
        /\ trace[j] = TargetSearch
        /\ trace[k] = TargetUpdate
        /\ trace[l] = TargetVerify

\* C9: the contact-stage cache is empty until a stage-list request is
\* answered successfully; once it holds a list no step changes or clears it
\* and no step issues another stage-list request; at most one stage-list
\* fetch ever succeeds.
C9_CacheFilledOnceNeverChanged ==
    [][/\ Len(apolloStagesCache) = 1
            => /\ apolloStagesCache' = apolloStagesCache
               /\ stageFetches' = stageFetches
               /\ Count(trace', StageList) <= Count(trace, StageList)
       /\ (Len(apolloStagesCache) = 0 /\ Len(apolloStagesCache') = 1)
            => /\ pc \in {"stages1", "stages2"}
               /\ stageFetches' = stageFetches + 1
               /\ apolloStagesCache' = <<remoteStages>>
       /\ stageFetches' <= 1]_vars

\* A later invocation maps a stage from the cache without a request.
C9_Witness ==
    /\ Len(apolloStagesCache) = 1
    /\ stageFetches = 1
    /\ invocations = 2
    /\ fn = "syncToApollo"
    /\ Len(lastMap) = 1
    /\ Count(trace, StageList) = 0

\* C10: onRecordUpdated never rejects: whatever fails inside syncToApollo
\* (the source read, the stage mapping, a target request), the handler
\* resolves.
C10_HandlerNeverRejects ==
    caller = "event"
        => /\ handlerOutcome # "rejected"
           /\ pc = "done" => handlerOutcome = "resolved"

C10_Witness ==
    /\ caller = "event"
    /\ fn = "syncToApollo"
    /\ syncOutcome = "threw"
    /\ Count(trace, TargetSearch) = 1
    /\ handlerOutcome = "resolved"

\* C11: a handler of the dialog never throws; whenever detectObjectType, a
\* sync function or an id-lookup function has thrown during
\* handleSyncToApollo or handleViewInApollo, the last message set is
\* "Error: " followed by the message of the error.
C11_DialogShowsError ==
    caller \in {"uiSync", "uiView"}
        => /\ handlerOutcome # "rejected"
           /\ Len(thrown) > 0
                => /\ handlerOutcome = "resolved"
                   /\ Len(message) = 1 + Len(thrown)
                   /\ message[1] = "Error: "
                   /\ \A i \in 1..Len(thrown) : message[i + 1] = thrown[i]

C11_Witness ==
    /\ caller = "uiView"
    /\ fn = "getApolloOrganizationId"
    /\ syncOutcome = "threw"
    /\ Count(trace, TargetSearch) > 0
    /\ Len(thrown) > 0
    /\ thrown[1] = "getApolloOrganizationId"
    /\ message = <<"Error: ">> \o thrown

SyncFunctions ==
    {"syncToApollo", "syncFromApollo", "syncCompanyToApollo", "syncDealToApollo"}

\* C12: whenever a request issued during a sync invocation has failed, the
\* invocation has thrown: it is over, and issued no request after the failed
\* one (neither the same again nor another in its place).
C12_FailedRequestThrows ==
    (fn \in SyncFunctions /\ failed)
        => (pc = "done" /\ syncOutcome = "threw")

\* C13: extractAttioValue of attribute-mapping.server.ts returns a string or
\* null for every JSON value, never a value of another type.
C13_ExtractReturnsStringOrNull ==
    (fn = "extractAttioValue" /\ caller = "attribute-mapping" /\ pc = "done")
        => result[1].k \in {"string", "null"}

\* The candidates of the extraction in the order option title, value, name,
\* title, label.
Candidates(x) ==
    <<Get(x, "option.title"), Get(x, "value"), Get(x, "name"), Get(x, "title"),
      Get(x, "label")>>

\* The object the extraction looks into: the first entry of an array, or the
\* argument itself.
Carrier(v) == IF v.k = "array" /\ Len(v.a) > 0 THEN v.a[1] ELSE v

\* C14: for an array entry or an object whose candidate fields are strings,
\* every extractAttioValue variant returns the first non-empty one in the
\* order option title > value > name > title > label.
C14_ExtractPriorityOrder ==
    (fn = "extractAttioValue" /\ pc = "done")
        => LET c == Candidates(Carrier(loc.attioData))
               nonEmpty == {i \in 1..5 : c[i].k = "string" /\ Len(c[i].s) > 0}
           IN  (/\ Carrier(loc.attioData).k = "object"
                /\ \A i \in 1..5 : c[i].k \in {"string", "undefined"}
                /\ \A n \in FieldNames \ {"option", "option.title", "value", "name", "title", "label"} :
                        Carrier(loc.attioData).f[n] = Undefined
                /\ nonEmpty # {})
                   => \E i \in nonEmpty :
                        /\ \A j \in nonEmpty : i <= j
                        /\ result[1].k = "string"
                        /\ Trim(result[1].s) = Trim(c[i].s)

\* The opportunity update of syncDealToApollo is in flight.
DealUpdateSent == fn = "syncDealToApollo" /\ pc = "patch"

\* The opportunity create of syncDealToApollo is in flight.
DealCreateSent == fn = "syncDealToApollo" /\ pc = "create"

MarkerMatches(results) ==
    {i \in 1..Len(results) : Marker(recordId) \in {results[i].description[j] :
                                 j \in 1..Len(results[i].description)}}

NameMatches(results) ==
    {i \in 1..Len(results) :
        /\ results[i].name # NULL
        /\ Trim(ToLowerCase(results[i].name)) = Trim(ToLowerCase(AttioDeals[recordId].name))}

C15_WitnessCreate ==
    /\ DealCreateSent
    /\ Len(loc.results) > 0

\* C16: two different deal records never issue updates against the same
\* opportunity of the target.
C16_DistinctDealsDistinctOpportunities ==
    \A u \in updatedBy : \A v \in updatedBy : u[2] = v[2] => u[1] = v[1]

\* C17: every create or update syncDealToApollo sends carries a description
\* that contains the marker of the synced record.
C17_DescriptionCarriesMarker ==
    (DealUpdateSent \/ DealCreateSent)
        => \E j \in 1..Len(payload.description) : payload.description[j] = Marker(recordId)

\* An update of a deal that has no description carries the marker.
C17_Witness ==
    /\ DealUpdateSent
    /\ AttioDeals[recordId].description = <<>>
    /\ payload.description = <<Marker(recordId)>>

\* Results of the name search whose trimmed, lower-cased name is the company's.
CompanyNameMatches ==
    {i \in 1..Len(loc.results) :
        /\ loc.results[i].name # NULL
        /\ Trim(ToLowerCase(loc.results[i].name))
             = Trim(ToLowerCase(AttioCompanies[recordId].name))}

\* Results of the second search that have the company's domain.
CompanyDomainMatches ==
    {i \in 1..Len(loc.results2) :
        /\ AttioCompanies[recordId].domain # NULL
        /\ loc.results2[i].domain # NULL
        /\ Trim(ToLowerCase(StripWww(loc.results2[i].domain)))
             = Trim(ToLowerCase(AttioCompanies[recordId].domain))}

\* C18: syncCompanyToApollo throws before any request to the target for a
\* company without a name; otherwise it updates the account of the name search
\* whose name equals the company's, else the account with the company's
\* domain, and creates an account only when there is neither; a company with
\* a name and no domain is synced.
C18_CompanyMatchingRule ==
    fn = "syncCompanyToApollo" =>
        /\ (pc = "done" /\ AttioCompanies[recordId].name = NULL)
              => /\ syncOutcome = "threw"
                 /\ Count(trace, TargetSearch) + Count(trace, TargetGet)
                      + Count(trace, TargetUpdate) + Count(trace, TargetCreate) = 0
        /\ pc \in {"create", "create2"}
              => CompanyNameMatches \cup CompanyDomainMatches = {}
        /\ pc \in {"get", "patch"}
              => /\ CompanyNameMatches \cup CompanyDomainMatches # {}
                 /\ loc.accountId =
                      IF CompanyNameMatches # {}
                      THEN loc.results[First(CompanyNameMatches)].id
                      ELSE loc.results2[First(CompanyDomainMatches)].id

\* C18, the decision alone: which of updateApolloAccount and
\* createApolloAccount the sync calls, and for which account.
C18_DecisionFollowsRule ==
    fn = "syncCompanyToApollo" =>
        /\ pc = "create" => CompanyNameMatches \cup CompanyDomainMatches = {}
        /\ pc \in {"get", "patch", "create2"}
              => /\ CompanyNameMatches \cup CompanyDomainMatches # {}
                 /\ loc.accountId =
                      IF CompanyNameMatches # {}
                      THEN loc.results[First(CompanyNameMatches)].id
                      ELSE loc.results2[First(CompanyDomainMatches)].id

\* The PATCH of updateApolloContact is in flight.
ContactUpdateSent == fn = "syncToApollo" /\ pc = "patch"

\* The contact the update is for, as the target holds it.
ExistingContacts == {c \in {apolloContacts[i] : i \in 1..Len(apolloContacts)} : c.id = payload.id}

\* C19: when the person record gives no first_name (last_name), the PATCH of
\* an existing contact does not send an empty value over a non-empty one the
\* contact has: the field is left out or has the contact's value.
C19_UpdateKeepsExistingNames ==
    ContactUpdateSent =>
        \A c \in ExistingContacts :
            /\ (Falsy(AttioNames[recordId].first_name) /\ c.first_name # NULL
                    /\ Len(c.first_name) > 0)
                  => payload.first_name \in {NotSet, c.first_name}
            /\ (Falsy(AttioNames[recordId].last_name) /\ c.last_name # NULL
                    /\ Len(c.last_name) > 0)
                  => payload.last_name \in {NotSet, c.last_name}

\* The stage of the synced deal as the sync extracts it, EMPTY when it has none.
SourceStage == IF AttioDeals[recordId].stage = NULL THEN EMPTY
               ELSE Trim(AttioDeals[recordId].stage)

IdentifierShaped(v) == v # NULL /\ Len(v) > 20 /\ \A i \in 1..Len(v) : v[i] \in AlnumChars

\* C20: in the update data of syncDealToApollo, with a non-empty source stage
\* exactly one of stage_id and stage_name is set: stage_id, identifier-shaped,
\* when the mapping gave an identifier, stage_name with the source stage
\* otherwise (also after a failed stage-list lookup); with an empty source
\* stage neither is set.
C20_StageIdOrStageName ==
    DealUpdateSent =>
        IF SourceStage = EMPTY
        THEN payload.stage_id = NULL /\ payload.stage_name = NULL
        ELSE LET mapped == mapDealStageToApollo(SourceStage,
                               CachedOpportunityStages(apolloOpportunityStagesCache))
             IN  /\ (payload.stage_id = NULL) # (payload.stage_name = NULL)
                 /\ payload.stage_id # NULL
                       => IdentifierShaped(mapped) /\ payload.stage_id = mapped
                 /\ payload.stage_name # NULL
                       => ~IdentifierShaped(mapped) /\ payload.stage_name = SourceStage

\* An update after the stage-list lookup failed at every endpoint carries
\* stage_name and no stage_id.
C20_Witness ==
    /\ DealUpdateSent
    /\ failed
    /\ apolloOpportunityStagesCache = << <<>> >>
    /\ payload.stage_name = SourceStage
    /\ SourceStage # EMPTY
    /\ payload.stage_id = NULL

\* An update with a mapped stage carries stage_id and no stage_name.
C20_WitnessStageId ==
    /\ DealUpdateSent
    /\ IdentifierShaped(payload.stage_id)
    /\ payload.stage_name = NULL

\* An update of a deal without a stage carries neither.
C20_WitnessNoStage ==
    /\ DealUpdateSent
    /\ SourceStage = EMPTY

\* The objects in the order detectObjectType is said to probe them.
ProbeOrder == <<"people", "companies", "deals">>

DataProbes == {i \in 1..Len(loc.probes) : loc.probes[i] = "data"}

\* C21: detectObjectType never throws; it probes person, company, deal in
\* this order, returns the type of the first probe that returns data and
\* probes no further, goes on after a failed probe as after an empty one, and
\* returns null exactly when none of the three probes returned data.
C21_DetectObjectTypeProbeOrder ==
    caller \in {"uiSync", "uiView"} =>
        /\ Len(loc.probes) <= 3
        /\ fn = "detectObjectType" /\ pc # "done"
              => /\ thrown = <<>>
                 /\ syncOutcome = "none"
                 /\ loc.detected = "none"
                 /\ DataProbes = {}
                 /\ Len(trace) = Len(loc.probes) + 1
        /\ loc.detected \in {"people", "companies", "deals"}
              => /\ DataProbes = {Len(loc.probes)}
                 /\ loc.detected = ProbeOrder[Len(loc.probes)]
                 /\ fn # "detectObjectType"
        /\ loc.detected = "null" <=> (Len(loc.probes) = 3 /\ DataProbes = {})
        /\ fn # "detectObjectType" => loc.detected \in {"people", "companies", "deals"}

\* A company is detected at the second probe after the first probe failed.
C21_Witness ==
    /\ caller = "uiSync"
    /\ fn = "syncCompanyToApollo"
    /\ loc.detected = "companies"
    /\ loc.probes = <<"none", "data">>

\* The next probe is in flight after a probe that failed.
C21_WitnessFailedProbe ==
    /\ fn = "detectObjectType"
    /\ pc = "detect2"
    /\ failed

\* No probe returned data: null.
C21_WitnessNull ==
    /\ fn = "detectObjectType"
    /\ pc = "done"
    /\ loc.detected = "null"

\* Identifiers of the accounts the target holds.
AccountIdsInTarget == {apolloAccounts[i].id : i \in 1..Len(apolloAccounts)}

\* C22: updateApolloAccount issues a create-account request only if the
\* target holds no account with the given id, whatever its first read gave.
C22_CreateOnlyIfAccountMissing ==
    (fn = "syncCompanyToApollo" /\ pc = "create2")
        => loc.accountId \notin AccountIdsInTarget

\* The three functions that sync a source record to the target.
ToTargetSyncs == {"syncToApollo", "syncCompanyToApollo", "syncDealToApollo"}

\* What the invocation asked the target to do, read off its requests.
CreateRequests == Count(trace, TargetCreate)
UpdateRequests == Count(trace, TargetUpdate)

\* C23: the result of a successful sync to the target tells what was done:
\* {created: 1, updated: 0} exactly when a create request and no update
\* request was issued, {created: 0, updated: 1} exactly when an update
\* request and no create request was issued, and nothing else is returned.
C23_ResultTellsWhatWasDone ==
    (fn \in ToTargetSyncs /\ syncOutcome = "returned")
        => \/ result = <<1, 0>> /\ CreateRequests > 0 /\ UpdateRequests = 0
           \/ result = <<0, 1>> /\ UpdateRequests > 0 /\ CreateRequests = 0

\* C25: in person sync, once the update request has succeeded (the verify
\* read was issued) the invocation ends by returning {created: 0, updated: 1},
\* whatever the verify read gives.
C25_VerifyReadNeverFailsTheSync ==
    (fn = "syncToApollo" /\ pc = "done" /\ Count(trace, TargetVerify) > 0)
        => syncOutcome = "returned" /\ result = <<0, 1>>

\* The target holds a record with the key of the record being synced.
KeyHeld ==
    CASE fn = "syncToApollo" ->
           \E i \in 1..Len(apolloContacts) : apolloContacts[i].email = loc.email
      [] fn = "syncCompanyToApollo" ->
           \E i \in 1..Len(apolloAccounts) :
              /\ ~Falsy(apolloAccounts[i].name)
              /\ Trim(ToLowerCase(apolloAccounts[i].name)) = Trim(ToLowerCase(loc.name))
      [] OTHER ->
           \E i \in 1..Len(apolloOpportunities) :
              \/ HasMarker(apolloOpportunities[i].description, recordId)
              \/ /\ ~Falsy(apolloOpportunities[i].name)
                 /\ Trim(ToLowerCase(apolloOpportunities[i].name))
                      = Trim(ToLowerCase(loc.name))

\* The record was created by a sync: the identifiers of created records are
\* made of "n" (contacts), "m" (accounts) or "q" (opportunities).
CreatedBySync(rec) == ~Falsy(rec.id) /\ rec.id[1] \in {"n", "m", "q"}

\* The target holds a record that a sync created and that has the key of the
\* record being synced.
CreatedUnderKey ==
    CASE fn = "syncToApollo" ->
           \E i \in 1..Len(apolloContacts) :
              CreatedBySync(apolloContacts[i]) /\ apolloContacts[i].email = loc.email
      [] fn = "syncCompanyToApollo" ->
           \E i \in 1..Len(apolloAccounts) :
              /\ CreatedBySync(apolloAccounts[i])
              /\ Trim(ToLowerCase(apolloAccounts[i].name)) = Trim(ToLowerCase(loc.name))
      [] OTHER ->
           \E i \in 1..Len(apolloOpportunities) :
              /\ CreatedBySync(apolloOpportunities[i])
              /\ HasMarker(apolloOpportunities[i].description, recordId)

\* C24: while every search of the target answers with the records it holds
\* under the key searched for, sequential invocations of a sync function for
\* an unchanged source record create at most one record: an invocation that
\* follows a create request for the record issues a create request of its own
\* only if the target holds no record created under the record's key (the
\* earlier request failed); otherwise it updates.
C24_SequentialSyncCreatesOnce ==
    (/\ ~lagged /\ fn \in ToTargetSyncs
     /\ pc \in {"create", "create2"}
     /\ loc.createsBefore > 0) => ~CreatedUnderKey

\* With such answers the sync functions themselves decide for a create only
\* while the target holds no record with the key of the source record; the
\* create requests left are those of updateApolloAccount.
C24_SyncCreatesOnlyWithoutMatch ==
    (~lagged /\ fn \in ToTargetSyncs /\ pc = "create") => ~KeyHeld

====
